---- MODULE Spec2Model ----
(***************************************************************************)
(* Change-data-capture core of rdbms_graph_rag:                            *)
(*   src/src/cdc/base.py               ChangeEvent, listener/handler ABCs  *)
(*   src/src/cdc/postgres_listener.py  PostgreSQLCDCListener               *)
(*   src/src/cdc/manager.py            CDCManager                          *)
(* The manager, its listeners' worker threads and its flush threads are    *)
(* modelled as one state machine; the wal2json parser is an operator.      *)
(***************************************************************************)
EXTENDS Integers, Sequences, FiniteSets, TLC

(***************************************************************************)
(* Bounds of the model.                                                    *)
(***************************************************************************)
\* CDCManager.batch_size as configured for the model's runs
BatchSize == 3
\* direct calls of CDCManager._handle_change made by the controlling thread
MaxDirect == 3
\* calls of register_listener the model lets be made
MaxRegister == 2
\* handler calls the model lets raise
MaxRaise == 2
\* calls of PostgreSQLCDCListener.setup the model lets be made
MaxSetup == 3

(***************************************************************************)
(* Optional values: None is <<>>, a value v is <<v>>.                      *)
(***************************************************************************)
None == <<>>
Some(v) == <<v>>
IsSome(o) == Len(o) > 0
IsNone(o) == Len(o) = 0
The(o) == o[1]

\* a key that a JSON object does not carry (dict.get gives None)
Absent == "<absent>"

(***************************************************************************)
(* wal2json payloads, as decoded by json.loads.  json_ok = FALSE is a      *)
(* payload json.loads rejects.  A wrapped payload carries its changes      *)
(* under the key 'change'; a flat payload is itself the one change.        *)
(***************************************************************************)
Col(n, v) == [name |-> n, value |-> v]

Change(action, kind, schema, table, columns, identity, timestamp, lsn) ==
    [action |-> action, kind |-> kind, schema |-> schema, table |-> table,
     columns |-> columns, identity |-> identity,
     timestamp |-> timestamp, lsn |-> lsn]

Flat(c) == [json_ok |-> TRUE, wrapped |-> FALSE, changes |-> <<c>>]
Wrapped(cs) == [json_ok |-> TRUE, wrapped |-> TRUE, changes |-> cs]
Garbage == [json_ok |-> FALSE, wrapped |-> FALSE, changes |-> <<>>]

(***************************************************************************)
(* PostgreSQLCDCListener._parse_wal2json                                   *)
(***************************************************************************)
\* dict.get(key) or other
OrElse(a, b) == IF a = Absent \/ a = "" THEN b ELSE a

\* a table that maps updates to deletes
SwappedMap(a) ==
    CASE a = "I" -> "INSERT"
      [] a = "U" -> "DELETE"
      [] a = "D" -> "UPDATE"
      [] a = "T" -> "TRUNCATE"

\* action_map
ActionCodes == {"I", "U", "D", "T"}
action_map(a) ==
    CASE a = "I" -> "INSERT"
      [] a = "U" -> "UPDATE"
      [] a = "D" -> "DELETE"
      [] a = "T" -> "TRUNCATE"

\* {col['name']: col.get('value') for col in cols}: a later column of the
\* same name overrides an earlier one
LastIndex(cols, n) ==
    CHOOSE i \in DOMAIN cols :
        /\ cols[i].name = n
        /\ \A j \in DOMAIN cols : cols[j].name = n => j <= i
DictOf(cols) ==
    [n \in {cols[i].name : i \in DOMAIN cols} |-> cols[LastIndex(cols, n)].value]

\* col['name'] raises KeyError for a column object without a name
ColsRaise(optcols) ==
    /\ IsSome(optcols)
    /\ \E i \in DOMAIN The(optcols) : The(optcols)[i].name = Absent

\* an optional column array to an optional dict
DataOf(optcols) == IF IsSome(optcols) THEN Some(DictOf(The(optcols))) ELSE None

\* Python truth of an Optional[dict]: None and {} are both false
Truthy(optdict) == IsSome(optdict) /\ DOMAIN The(optdict) # {}

\* a key that is the whole row
WholeRow(d) == Some(d)

\* PostgreSQLCDCListener._extract_pk_from_data
IdOnly(d) == [n \in {"id"} |-> d["id"]]
extract_pk_from_data(d) ==
    IF "id" \in DOMAIN d THEN Some(IdOnly(d)) ELSE None

PrimaryKeyOf(old_data, new_data) ==
    IF Truthy(old_data) THEN old_data
    ELSE IF Truthy(new_data) THEN extract_pk_from_data(The(new_data))
    ELSE None

\* date_parser.parse(change['timestamp']) with the fallback to datetime.now()
TimestampOf(ts) == IF ts = Absent \/ ts = "unparsable" THEN "now" ELSE ts

ChangeEvent(c, position) ==
    [operation   |-> action_map(OrElse(c.action, c.kind)),
     table       |-> c.table,
     schema      |-> IF c.schema = Absent THEN "public" ELSE c.schema,
     timestamp   |-> TimestampOf(c.timestamp),
     old_data    |-> DataOf(c.identity),
     new_data    |-> DataOf(c.columns),
     primary_key |-> PrimaryKeyOf(DataOf(c.identity), DataOf(c.columns)),
     lsn         |-> OrElse(c.lsn, position)]

\* a parser that looks at the last change of an envelope
LastChange(payload) == payload.changes[Len(payload.changes)]

\* the change the parser looks at: data['change'][0], or data itself
FirstChange(payload) == payload.changes[1]

ActionOf(c) == OrElse(c.action, c.kind)

\* an optional ChangeEvent
parse_wal2json(payload, position) ==
    IF ~payload.json_ok THEN None
    ELSE IF payload.wrapped /\ payload.changes = <<>> THEN None
    ELSE LET c == FirstChange(payload)
             action == ActionOf(c)
         IN  IF action \in {"B", "C"} THEN None
             ELSE IF action \notin ActionCodes THEN None
             ELSE IF c.table = Absent \/ c.table = "" THEN None
             ELSE IF ColsRaise(c.columns) \/ ColsRaise(c.identity) THEN None
             ELSE Some(ChangeEvent(c, position))

(***************************************************************************)
(* The model's universe: listener objects, registry names, handlers, the   *)
(* change stream each listener's replication slot holds.                   *)
(***************************************************************************)
ListenerIds == {1, 2}
Names == {"postgres_default", "postgres_hr"}
HandlerPool == {"GraphSyncHandler", "EmbeddingSyncHandler"}

\* graph_schema.node_types of the schema each handler is constructed with in
\* the model's runs: node types with a source table and one without
NodeType(label, source_table) == [label |-> label, source_table |-> source_table]
node_types(h) ==
    IF h = "GraphSyncHandler"
    THEN << NodeType("Patient", "patients"), NodeType("Tag", Absent) >>
    ELSE << NodeType("Patient", "patients"), NodeType("Tag", Absent),
            NodeType("Visit", "visits") >>

\* a predicate that accepts every event
AcceptsAll(h, e) == TRUE

\* GraphSyncHandler.table_to_node_type / EmbeddingSyncHandler.table_to_label:
\* the tables each handler's lookup holds in the model's runs
table_to_node_type(h) ==
    {node_types(h)[i].source_table :
        i \in {j \in DOMAIN node_types(h) :
                  node_types(h)[j].source_table \notin {Absent, ""}}}

\* GraphSyncHandler.can_handle, EmbeddingSyncHandler.can_handle
can_handle(h, e) == e.table \in table_to_node_type(h)

\* a slot that holds one change more than a batch takes: inserts into the
\* two mapped tables in turn, message k with lsn 0/k
LongStream ==
    [k \in 1..(BatchSize + 1) |->
        Flat(Change("I", Absent, "public",
                    IF k % 2 = 1 THEN "patients" ELSE "visits",
                    Some(<<Col("id", ToString(k))>>), None, Absent,
                    "0/" \o ToString(k)))]

\* a slot whose messages are wrapped envelopes: one with two changes, one
\* with an empty change list, one with a single change
EnvelopeStream ==
    << Wrapped(<< Change("I", Absent, "public", "patients",
                         Some(<<Col("id", "1")>>), None, Absent, "0/A1"),
                  Change("I", Absent, "public", "visits",
                         Some(<<Col("id", "2")>>), None, Absent, "0/A2") >>),
       Wrapped(<<>>),
       Wrapped(<< Change("D", Absent, "public", "patients",
                         None, Some(<<Col("id", "1")>>), Absent, "0/A3") >>) >>

VARIABLES
    enable_batching,  \* CDCManager.enable_batching
    listeners,        \* CDCManager.listeners: ordered dict, as a sequence of [name, listener]
    handlers,         \* CDCManager.handlers
    event_queue,      \* CDCManager.event_queue
    queue_lock,       \* CDCManager.queue_lock: the holder, or Free
    batch_thread,     \* CDCManager.batch_thread: a thread id, or 0 for None
    stop_batching,    \* CDCManager.stop_batching (threading.Event)
    metrics,          \* CDCManager.metrics
    lst,              \* the listener objects' fields and their slots' cursors
    thr,              \* each thread's position and locals
    nthreads,         \* threads spawned so far
    ctl,              \* the controlling thread's call in progress and its results
    hist              \* history: the events appended to the queue and not yet
                      \* taken off it, in arrival order; all events appended;
                      \* the events handed to _process_batch or
                      \* _process_event; the (event, handler) pairs handed to
                      \* a handler; the handler calls that raised

vars == << enable_batching, listeners, handlers, event_queue, queue_lock,
           batch_thread, stop_batching, metrics, lst, thr,
           nthreads, ctl, hist >>

\* the messages of each listener's slot, in WAL order; a message's offset
\* (msg.data_start) is its index
Stream(l) ==
    IF ctl.slot = "long" THEN LongStream
    ELSE IF ctl.slot = "envelopes" THEN EnvelopeStream
    ELSE IF l = 1
    THEN << Flat(Change("I", Absent, "public", "patients",
                        Some(<<Col("id", "7"), Col("name", "Amy")>>), None,
                        "2024-01-15", "0/16B2D80")),
            Flat(Change("U", Absent, "public", "visits",
                        Some(<<Col("visit_id", "3")>>),
                        Some(<<Col("visit_id", "3")>>), Absent, Absent)) >>
    ELSE << Garbage,
            Flat(Change("I", Absent, "hr", Absent,
                        Some(<<Col("id", "8")>>), None, Absent, Absent)),
            Flat(Change("D", Absent, "hr", "patients",
                        None, Some(<<Col("id", "9")>>), "unparsable", Absent)) >>

\* str(msg.data_start)
PositionStr(l, k) == ToString(l) \o "/" \o ToString(k)

\* the event, if any, that message k of listener l parses to
EventOfMsg(l, k) == parse_wal2json(Stream(l)[k], PositionStr(l, k))

\* the events the controlling thread passes to _handle_change directly
DirectEvent(n, table) ==
    ChangeEvent(Change("I", Absent, "public", table,
                       Some(<<Col("id", ToString(n))>>), None, Absent,
                       "direct/" \o ToString(n)), "")

(***************************************************************************)
(* Threads.  Thread 0 is the controlling thread (the caller of the         *)
(* manager's methods); the other threads are spawned by start_all and      *)
(* start_streaming in spawn order.                                         *)
(***************************************************************************)
MainT == 0
\* one flush thread and one worker for each listener: the threads one
\* start_all spawns
Spawned == 1..(Cardinality(ListenerIds) + 1)
Threads == {MainT} \cup Spawned
Free == -1
\* the worker reference of a listener whose Thread object was created and
\* never started
Unstarted == -1

\* the threads one start_all spawns: the flush thread when batching is
\* enabled, and a worker for each listener
MaxThreads == IF enable_batching THEN Cardinality(Spawned)
              ELSE Cardinality(ListenerIds)

\* a thread that is not running anything
NoThread ==
    [role |-> "none", pc |-> "none", l |-> 0, msg |-> 0, ev |-> None,
     events |-> <<>>, alias |-> FALSE, kind |-> "none", h |-> 0,
     sub |-> <<>>, expect |-> <<>>, called |-> <<>>]

\* CDCListener.__init__, PostgreSQLCDCListener.__init__, and the slot's cursor:
\* rd is the number of messages the server has sent on the current
\* connection's stream, acked the confirmed flush offset
NewListener ==
    [is_running |-> FALSE, stop_event |-> FALSE, current_position |-> None,
     stream_thread |-> 0, setup_calls |-> 0, rd |-> 0, acked |-> 0]

\* a source database: its wal_level setting, its publications and its
\* replication slots
NoDatabase == [wal_level |-> "logical", pubs |-> {}, slots |-> {}]

\* a listener's flags and worker reference as a caller sees them
NoSnap == [is_running |-> FALSE, stop_event |-> FALSE, stream_thread |-> 0]

\* the controlling thread before its first call
NoCall ==
    [call |-> "none", raised |-> "none", sidx |-> 0, ndirect |-> 0,
     nregister |-> 0, before |-> <<>>, name |-> "", listener |-> 0,
     setups |-> 0, snap |-> NoSnap, spawned |-> 0,
     status |-> None, stop_queue |-> <<>>,
     stop_flushes |-> <<>>, payload |-> None, parsed |-> None,
     db |-> NoDatabase, tables |-> None, setup_log |-> <<>>,
     start_failed |-> {}, stop_failed |-> {},
     graph |-> {}, delivered |-> <<>>,
     cleaned |-> <<>>, cleanup_failed |-> {},
     faulty |-> {}, queries |-> <<>>, slot |-> "default"]

\* CDCManager.__init__ and the objects around it
Fresh ==
    /\ enable_batching \in BOOLEAN
    /\ listeners = <<>>
    /\ handlers = <<>>
    /\ event_queue = <<>>
    /\ queue_lock = Free
    /\ batch_thread = 0
    /\ stop_batching = FALSE
    /\ metrics = [events_received |-> 0, events_processed |-> 0,
                  events_failed |-> 0, batches_processed |-> 0,
                  errors |-> <<>>]
    /\ lst = [l \in ListenerIds |-> NewListener]
    /\ thr = [t \in Threads |->
                IF t = MainT THEN [NoThread EXCEPT !.role = "main", !.pc = "idle"]
                ELSE NoThread]
    /\ nthreads = 0
    /\ hist = [pending |-> <<>>, appended |-> {}, flushed |-> {}, offered |-> {},
               raises |-> 0]

Init ==
    /\ Fresh
    /\ ctl = NoCall

(***************************************************************************)
(* Helpers over threads and the registry.                                  *)
(***************************************************************************)
Main == thr[MainT]
Alive(t) == thr[t].pc \notin {"none", "exited", "faulted"}
RegisteredNames == {listeners[i].name : i \in DOMAIN listeners}
Registered == {listeners[i].listener : i \in DOMAIN listeners}

\* the registries are filled before the first start_all (registration while
\* running is unsupported by the program)
BeforeStart == nthreads = 0

\* the controlling thread starts a call: its previous results are dropped,
\* but for a status object it got from get_status, which it keeps
Call(name) ==
    [ctl EXCEPT !.call = name, !.raised = "none",
                !.before = <<>>, !.name = "", !.listener = 0, !.setups = 0,
                !.snap = NoSnap, !.spawned = 0, !.start_failed = {},
                !.stop_failed = {}, !.cleaned = <<>>,
                !.cleanup_failed = {}]

(***************************************************************************)
(* CDCManager.register_listener                                            *)
(***************************************************************************)
\* the duplicate check that never finds the name
NeverRegistered(reg, name) == FALSE

\* if name in self.listeners
IsRegistered(reg, name) == \E i \in DOMAIN reg : reg[i].name = name

\* the registry after self.listeners[name] = listener: a dict assignment
RegistryPut(reg, name, l) ==
    IF \E i \in DOMAIN reg : reg[i].name = name
    THEN [i \in DOMAIN reg |->
            IF reg[i].name = name THEN [name |-> name, listener |-> l] ELSE reg[i]]
    ELSE Append(reg, [name |-> name, listener |-> l])

\* the call as the controlling thread sees it: the registry and the
\* listener's setup count before it, and what it raised
Registering(name, l, raised) ==
    [Call("register_listener") EXCEPT
        !.raised = raised, !.before = listeners, !.name = name,
        !.listener = l, !.setups = lst[l].setup_calls, !.nregister = @ + 1]

register_listener(name, l, auto_setup, setup_fails) ==
    /\ Main.pc = "idle"
    /\ BeforeStart
    /\ ctl.nregister < MaxRegister
    /\ IF IsRegistered(listeners, name)
       THEN \* raise CDCError
            /\ ctl' = Registering(name, l, "CDCError")
            /\ UNCHANGED << listeners, lst >>
       ELSE IF auto_setup
       THEN \* listener.setup() is called and may raise; the exception is
            \* logged and raised again
            /\ lst' = [lst EXCEPT ![l].setup_calls = @ + 1]
            /\ listeners' = RegistryPut(listeners, name, l)
            /\ ctl' = Registering(name, l, IF setup_fails THEN "CDCSetupError"
                                           ELSE "none")
       ELSE /\ listeners' = RegistryPut(listeners, name, l)
            /\ ctl' = Registering(name, l, "none")
            /\ UNCHANGED lst
    /\ UNCHANGED << enable_batching, handlers, event_queue, queue_lock,
                    batch_thread, stop_batching, metrics, thr,
                    nthreads, hist >>

RegisterListener ==
    \E name \in Names, l \in ListenerIds, auto_setup \in BOOLEAN,
       setup_fails \in BOOLEAN :
        /\ (setup_fails => auto_setup /\ name \notin RegisteredNames)
        /\ register_listener(name, l, auto_setup, setup_fails)

(***************************************************************************)
(* CDCManager.add_handler                                                  *)
(***************************************************************************)
add_handler(h) ==
    /\ Main.pc = "idle"
    /\ BeforeStart
    /\ \A i \in DOMAIN handlers : handlers[i] # h
    /\ handlers' = Append(handlers, h)
    /\ ctl' = Call("add_handler")
    /\ UNCHANGED << enable_batching, listeners, event_queue, queue_lock,
                    batch_thread, stop_batching, metrics, lst,
                    thr, nthreads, hist >>

AddHandler == \E h \in HandlerPool : add_handler(h)

\* the registrations setup_cdc makes: a listener under a name of its own with
\* auto_setup, then the graph handler, then the embedding handler
NameOf(l) == IF l = 1 THEN "postgres_default" ELSE "postgres_hr"
SetupOrder == << "GraphSyncHandler", "EmbeddingSyncHandler" >>

SetupCdcListener ==
    /\ Len(listeners) < Cardinality(ListenerIds)
    /\ register_listener(NameOf(Len(listeners) + 1), Len(listeners) + 1, TRUE, FALSE)

SetupCdcHandler ==
    /\ Len(handlers) < Len(SetupOrder)
    /\ add_handler(SetupOrder[Len(handlers) + 1])

(***************************************************************************)
(* CDCManager.start_all with PostgreSQLCDCListener.start_streaming         *)
(***************************************************************************)
\* the listeners start_all starts, in registry order: start_streaming
\* returns at once for a listener that is already running
RECURSIVE ToStart(_, _)
ToStart(i, seen) ==
    IF i > Len(listeners) THEN <<>>
    ELSE LET l == listeners[i].listener
         IN  IF l \in seen \/ lst[l].is_running
             THEN ToStart(i + 1, seen)
             ELSE <<l>> \o ToStart(i + 1, seen \cup {l})

IndexOf(seq, x) == CHOOSE i \in DOMAIN seq : seq[i] = x
InSeq(seq, x) == \E i \in DOMAIN seq : seq[i] = x

\* whether start_all launches the flush thread
StartsFlushThread == enable_batching

start_all ==
    /\ Main.pc = "idle"
    /\ ctl' = Call("start_all")
    /\ IF listeners = <<>>
       THEN UNCHANGED << batch_thread, stop_batching, lst, thr, nthreads >>
       ELSE LET nb == IF StartsFlushThread THEN 1 ELSE 0
                ws == ToStart(1, {})
            IN  /\ nthreads + nb + Len(ws) <= MaxThreads
                /\ nthreads' = nthreads + nb + Len(ws)
                /\ IF StartsFlushThread
                   THEN /\ stop_batching' = FALSE
                        /\ batch_thread' = nthreads + 1
                   ELSE UNCHANGED << stop_batching, batch_thread >>
                /\ lst' = [l \in ListenerIds |->
                             IF InSeq(ws, l)
                             THEN [lst[l] EXCEPT
                                      !.is_running = TRUE,
                                      !.stop_event = FALSE,
                                      !.rd = lst[l].acked,
                                      !.stream_thread = nthreads + nb + IndexOf(ws, l)]
                             ELSE lst[l]]
                /\ thr' = [t \in Threads |->
                             IF StartsFlushThread /\ t = nthreads + 1
                             THEN [NoThread EXCEPT !.role = "flush", !.pc = "loop"]
                             ELSE IF t > nthreads + nb /\ t <= nthreads + nb + Len(ws)
                             THEN [NoThread EXCEPT !.role = "worker", !.pc = "loop",
                                                   !.l = ws[t - nthreads - nb]]
                             ELSE thr[t]]
    /\ UNCHANGED << enable_batching, listeners, handlers, event_queue,
                    queue_lock, metrics, hist >>

\* what start_all raises to its caller when start_streaming raised for the
\* listeners in failing: the except clause in the loop logs each failure
StartAllRaises(failing) == "none"

\* start_all on a manager some of whose listeners cannot start their worker
\* thread: Thread.start() raises in start_streaming after the flags are set
start_all_failing(failing) ==
    /\ Main.pc = "idle"
    /\ listeners # <<>>
    /\ failing # {}
    /\ failing \subseteq {l \in Registered : ~lst[l].is_running}
    /\ ctl' = [Call("start_all") EXCEPT !.raised = StartAllRaises(failing),
                                        !.start_failed = failing]
    /\ LET nb == IF StartsFlushThread THEN 1 ELSE 0
           ws == SelectSeq(ToStart(1, {}), LAMBDA l : l \notin failing)
       IN  /\ nthreads + nb + Len(ws) <= MaxThreads
           /\ nthreads' = nthreads + nb + Len(ws)
           /\ IF StartsFlushThread
              THEN /\ stop_batching' = FALSE
                   /\ batch_thread' = nthreads + 1
              ELSE UNCHANGED << stop_batching, batch_thread >>
           /\ lst' = [l \in ListenerIds |->
                        IF InSeq(ws, l)
                        THEN [lst[l] EXCEPT
                                 !.is_running = TRUE,
                                 !.stop_event = FALSE,
                                 !.rd = lst[l].acked,
                                 !.stream_thread = nthreads + nb + IndexOf(ws, l)]
                        ELSE IF l \in failing
                        THEN [lst[l] EXCEPT !.is_running = TRUE,
                                            !.stop_event = FALSE,
                                            !.stream_thread = Unstarted]
                        ELSE lst[l]]
           /\ thr' = [t \in Threads |->
                        IF StartsFlushThread /\ t = nthreads + 1
                        THEN [NoThread EXCEPT !.role = "flush", !.pc = "loop"]
                        ELSE IF t > nthreads + nb /\ t <= nthreads + nb + Len(ws)
                        THEN [NoThread EXCEPT !.role = "worker", !.pc = "loop",
                                              !.l = ws[t - nthreads - nb]]
                        ELSE thr[t]]
    /\ UNCHANGED << enable_batching, listeners, handlers, event_queue,
                    queue_lock, metrics, hist >>

StartAllFailing == \E failing \in SUBSET ListenerIds : start_all_failing(failing)

(***************************************************************************)
(* CDCManager._process_batch and CDCManager._process_event: the loop over  *)
(* the handlers.  A thread is at "in_handler" while a handler's            *)
(* handle_batch / handle_change runs, and at "return" when the loop has    *)
(* ended and the function is about to return.                              *)
(***************************************************************************)
\* a filter that gives the accepted events last first
ReversedFilter(events, h) ==
    LET sel == SelectSeq(events, LAMBDA e : can_handle(h, e))
    IN  [i \in 1..Len(sel) |-> sel[Len(sel) + 1 - i]]

\* handler_events = [e for e in events if handler.can_handle(e)]
handler_events(events, h) == SelectSeq(events, LAMBDA e : can_handle(h, e))

\* the list a thread's _process_batch iterates: stop_all passes
\* self.event_queue itself, the flushes pass a copy
EventsOf(t) == IF thr[t].alias THEN event_queue ELSE thr[t].events

\* the first handler at or after index h that is called with something,
\* or 0 when the loop ends without another call
NextCalled(events, h) ==
    LET hs == {i \in h..Len(handlers) : handler_events(events, handlers[i]) # <<>>}
    IN  IF hs = {} THEN 0 ELSE CHOOSE i \in hs : \A j \in hs : i <= j

\* an event's identity in the history
Id(e) == e.lsn
Ids(events) == {Id(events[i]) : i \in DOMAIN events}

\* the first handler at or after index h whose can_handle raises (the
\* handlers in ctl.faulty: none of a manager set up by setup_cdc), or 0
FirstFaulty(h) ==
    LET fs == {i \in h..Len(handlers) : handlers[i] \in ctl.faulty}
    IN  IF fs = {} THEN 0 ELSE CHOOSE i \in fs : \A j \in fs : i <= j

\* whether the loop, going on from index h, reaches a raising can_handle
\* before its next handler call: the filter (_process_batch) and the test
\* (_process_event) are outside the try block
FilterRaises(events, h) ==
    /\ FirstFaulty(h) # 0
    /\ NextCalled(events, h) = 0 \/ FirstFaulty(h) <= NextCalled(events, h)

\* The loop over the handlers goes on from handler index h, into the next
\* handler that is called or to the loop's end, or is left by the exception
\* of a can_handle.  rec is the thread's locals and hist0 the history before
\* this, events the list the loop iterates.
Proceed(t, rec, events, h, hist0) ==
    LET n == NextCalled(events, h)
        sub == handler_events(events, handlers[n])
    IN  IF FilterRaises(events, h)
        THEN /\ thr' = [thr EXCEPT ![t] =
                          [rec EXCEPT !.pc = "raising", !.h = FirstFaulty(h),
                                      !.sub = <<>>]]
             /\ hist' = hist0
        ELSE IF n = 0
        THEN /\ thr' = [thr EXCEPT ![t] =
                          [rec EXCEPT !.pc = "return", !.h = 0, !.sub = <<>>]]
             /\ hist' = hist0
        ELSE /\ thr' = [thr EXCEPT ![t] =
                          [rec EXCEPT !.pc = "in_handler", !.h = n, !.sub = sub,
                                      !.called = Append(@,
                                          [handler |-> handlers[n], events |-> sub,
                                           outcome |-> "running"])]]
             /\ hist' = [hist0 EXCEPT !.offered =
                           @ \cup {<<id, handlers[n]>> : id \in Ids(sub)}]

\* the metrics after a handler call with n events returned or raised
MetricsAfter(m, h, n, single, raised) ==
    IF raised
    THEN [m EXCEPT !.events_failed = @ + n,
                   !.errors = Append(@, [handler |-> h, error |-> "raised",
                                         single |-> single, event_count |-> n])]
    ELSE [m EXCEPT !.events_processed = @ + n,
                   !.batches_processed = IF single THEN @ ELSE @ + 1]

\* a loop that a raising handler ends
AbortOnRaise(h, raised) == IF raised THEN Len(handlers) + 1 ELSE h + 1

\* the handler index the loop goes on from after the call at index h
\* returned or raised: the except clause is inside the loop
AfterCall(h, raised) == h + 1

\* a handler call returns or raises; the metrics are updated under the
\* metrics lock and the loop goes on
HandlerReturns(t, raised) ==
    /\ thr[t].pc = "in_handler"
    /\ raised => hist.raises < MaxRaise
    /\ metrics' = MetricsAfter(metrics, handlers[thr[t].h], Len(thr[t].sub),
                               thr[t].kind = "single", raised)
    /\ Proceed(t,
               [thr[t] EXCEPT !.called[Len(thr[t].called)].outcome =
                                 IF raised THEN "raised" ELSE "ok"],
               EventsOf(t), AfterCall(thr[t].h, raised),
               [hist EXCEPT !.raises = IF raised THEN @ + 1 ELSE @])
    /\ UNCHANGED << enable_batching, listeners, handlers, event_queue,
                    queue_lock, batch_thread, stop_batching, lst, nthreads, ctl >>

HandlerCall == \E t \in Threads, raised \in BOOLEAN : HandlerReturns(t, raised)

\* whether the queue lock is released when a flush of this kind returns:
\* the size- and time-triggered flushes run inside "with self.queue_lock"
HoldsQueueLock(kind) == kind \in {"size", "time"}

\* where a thread goes when _process_batch / _process_event has returned
AfterDispatch(t) ==
    CASE thr[t].kind = "final" -> "final_clear"
      [] thr[t].role = "worker" -> "ack"
      [] thr[t].role = "flush" -> "loop"
      [] OTHER -> "idle"

\* _process_batch / _process_event returns to its caller, which leaves its
\* with block
DispatchReturn(t) ==
    /\ thr[t].pc = "return"
    /\ thr' = [thr EXCEPT ![t].pc = AfterDispatch(t), ![t].events = <<>>,
                 ![t].alias = FALSE, ![t].kind = "none", ![t].called = <<>>,
                 ![t].expect = <<>>, ![t].ev = None]
    /\ queue_lock' = IF HoldsQueueLock(thr[t].kind) THEN Free ELSE queue_lock
    /\ ctl' = IF t = MainT /\ thr[t].kind # "final"
              THEN [ctl EXCEPT !.call = "returned"] ELSE ctl
    /\ UNCHANGED << enable_batching, listeners, handlers, event_queue,
                    batch_thread, stop_batching, metrics, lst,
                    nthreads, hist >>

Return == \E t \in Threads : DispatchReturn(t)

\* where a thread goes when an exception leaves _process_batch or
\* _process_event: a worker's _process_message logs it in its except clause,
\* without the acknowledgement, and the read loop goes on; _batch_processor
\* catches nothing, so the flush thread ends; the controlling thread's call
\* raises, and the model follows the controlling thread no further
AfterRaise(t) ==
    CASE thr[t].role = "worker" -> "loop"
      [] thr[t].role = "flush" -> "faulted"
      [] OTHER -> "raised"

\* the exception of a can_handle leaves _process_batch / _process_event and
\* the with block of its caller, which releases the queue lock
Unwind(t) ==
    /\ thr[t].pc = "raising"
    /\ thr' = [thr EXCEPT ![t].pc = AfterRaise(t), ![t].events = <<>>,
                 ![t].alias = FALSE, ![t].kind = "none", ![t].called = <<>>,
                 ![t].expect = <<>>, ![t].ev = None, ![t].msg = 0, ![t].h = 0]
    /\ queue_lock' = IF HoldsQueueLock(thr[t].kind) THEN Free ELSE queue_lock
    /\ ctl' = IF t = MainT
              THEN [ctl EXCEPT !.call = IF thr[t].kind = "final"
                                        THEN "stop_all_raised" ELSE "raised",
                               !.raised = "Exception",
                               !.stop_queue = <<>>, !.stop_flushes = <<>>,
                               !.sidx = 0]
              ELSE ctl
    /\ UNCHANGED << enable_batching, listeners, handlers, event_queue,
                    batch_thread, stop_batching, metrics, lst,
                    nthreads, hist >>

FilterFault == \E t \in Threads : Unwind(t)

\* a thread enters _process_batch(events) or _process_event(event): its locals
Entered(t, kind, events, alias) ==
    [thr[t] EXCEPT !.kind = kind, !.events = events,
                   !.alias = alias, !.h = 0, !.sub = <<>>, !.called = <<>>,
                   !.expect = hist.pending]

\* the history when a batch is handed to _process_batch, taken off the queue
\* (copy and clear) or not (stop_all's rest)
Handed(batch, taken) ==
    [hist EXCEPT !.flushed = @ \cup Ids(batch),
                 !.pending = IF taken THEN <<>> ELSE @]

\* stop_all counts the flushes that start while it runs
NoteFlush(batch) ==
    IF Main.pc \in {"stop_listener", "join_stream", "join_batch"}
    THEN [ctl EXCEPT !.stop_flushes = Append(@, batch)]
    ELSE ctl

(***************************************************************************)
(* CDCManager._handle_change, by a listener's worker (the callback) or by  *)
(* the controlling thread.                                                 *)
(***************************************************************************)
\* with self.metrics_lock: events_received += 1; then the branch on
\* enable_batching: the queue, or _process_event(event)
HandleChangeCount(t) ==
    /\ thr[t].pc = "hc_enter"
    /\ metrics' = [metrics EXCEPT !.events_received = @ + 1]
    /\ IF enable_batching
       THEN /\ thr' = [thr EXCEPT ![t].pc = "hc_queue"]
            /\ UNCHANGED hist
       ELSE Proceed(t, Entered(t, "single", thr[t].ev, FALSE), thr[t].ev, 1,
                    Handed(thr[t].ev, FALSE))
    /\ UNCHANGED << enable_batching, listeners, handlers, event_queue,
                    queue_lock, batch_thread, stop_batching, lst, nthreads,
                    ctl >>

\* queue.append(event)
Enqueue(q, e) == Append(q, e)

\* with self.queue_lock: self.event_queue.append(event)
HandleChangeAppend(t) ==
    /\ thr[t].pc = "hc_queue"
    /\ queue_lock = Free
    /\ queue_lock' = t
    /\ event_queue' = Enqueue(event_queue, The(thr[t].ev))
    /\ hist' = [hist EXCEPT !.pending = Append(@, Id(The(thr[t].ev))),
                             !.appended = @ \cup {Id(The(thr[t].ev))}]
    /\ thr' = [thr EXCEPT ![t].pc = "hc_check"]
    /\ UNCHANGED << enable_batching, listeners, handlers, batch_thread,
                    stop_batching, metrics, lst, nthreads, ctl >>

\* a flush one event early
SizeReached(q) == Len(q) >= BatchSize - 1

\* a flush one event late
SizeExceeded(q) == Len(q) > BatchSize

\* if len(self.event_queue) >= self.batch_size
SizeTriggered(q) == Len(q) >= BatchSize

\* a copy that loses the oldest event
AllButFirst(q) == Tail(q)

\* batch = self.event_queue.copy()
CopyOf(q) == q

\* a clear that leaves the queue as it is
NotCleared(q) == q

\* self.event_queue.clear()
Cleared(q) == <<>>

\* the size-triggered flush, or the end of the with block
HandleChangeCheck(t) ==
    /\ thr[t].pc = "hc_check"
    /\ queue_lock = t
    /\ IF SizeTriggered(event_queue)
       THEN /\ event_queue' = Cleared(event_queue)
            /\ Proceed(t, Entered(t, "size", CopyOf(event_queue), FALSE),
                       CopyOf(event_queue), 1, Handed(CopyOf(event_queue), TRUE))
            /\ ctl' = NoteFlush(CopyOf(event_queue))
            /\ UNCHANGED queue_lock
       ELSE /\ queue_lock' = Free
            /\ thr' = [thr EXCEPT ![t].pc = IF thr[t].role = "worker"
                                            THEN "ack" ELSE "idle",
                                  ![t].ev = None]
            /\ ctl' = IF t = MainT THEN [ctl EXCEPT !.call = "returned"] ELSE ctl
            /\ UNCHANGED << event_queue, hist >>
    /\ UNCHANGED << enable_batching, listeners, handlers, batch_thread,
                    stop_batching, metrics, lst, nthreads >>

HandleChange ==
    \E t \in Threads :
        \/ HandleChangeCount(t)
        \/ HandleChangeAppend(t)
        \/ HandleChangeCheck(t)

\* the controlling thread calls _handle_change(event) itself
DirectHandleChange ==
    \E table \in {"patients", "visits"} :
        /\ Main.pc = "idle"
        /\ ctl.ndirect < MaxDirect
        /\ ctl' = [Call("_handle_change") EXCEPT !.ndirect = @ + 1]
        /\ thr' = [thr EXCEPT ![MainT].pc = "hc_enter",
                     ![MainT].ev = Some(DirectEvent(ctl.ndirect + 1, table))]
        /\ UNCHANGED << enable_batching, listeners, handlers, event_queue,
                        queue_lock, batch_thread, stop_batching, metrics,
                        lst, nthreads, hist >>

(***************************************************************************)
(* PostgreSQLCDCListener._stream_changes and _process_message: a worker.   *)
(***************************************************************************)
\* while not self.stop_event.is_set(): left when the stop flag is set
WorkerExit(t) ==
    /\ thr[t].role = "worker"
    /\ thr[t].pc = "loop"
    /\ lst[thr[t].l].stop_event
    /\ thr' = [thr EXCEPT ![t].pc = "exited"]
    /\ UNCHANGED << enable_batching, listeners, handlers, event_queue,
                    queue_lock, batch_thread, stop_batching, metrics,
                    lst, nthreads, ctl, hist >>

\* self.current_position when message k of listener l is parsed: the
\* offset of the message before
PositionBefore(l, k) == PositionStr(l, k - 1)

\* self.current_position when message k of listener l is parsed: it was
\* set to the message's offset first
PositionAtParse(l, k) == PositionStr(l, k)

\* a callback that is called whatever the parser returned
AlwaysCallback(event) == "hc_enter"

\* if event: callback(event); then the acknowledgement
AfterParse(event) == IF IsSome(event) THEN "hc_enter" ELSE "ack"

\* read_message() gives a message; _process_message records its offset,
\* parses it and, with an event, calls the callback
WorkerRead(t) ==
    /\ thr[t].role = "worker"
    /\ thr[t].pc = "loop"
    /\ ~lst[thr[t].l].stop_event
    /\ lst[thr[t].l].rd < Len(Stream(thr[t].l))
    /\ LET l == thr[t].l
           k == lst[l].rd + 1
           event == parse_wal2json(Stream(l)[k], PositionAtParse(l, k))
       IN  /\ lst' = [lst EXCEPT ![l].rd = k,
                         ![l].current_position = Some(PositionStr(l, k))]
           /\ thr' = [thr EXCEPT ![t].msg = k, ![t].ev = event,
                         ![t].pc = AfterParse(event)]
    /\ UNCHANGED << enable_batching, listeners, handlers, event_queue,
                    queue_lock, batch_thread, stop_batching, metrics,
                    nthreads, ctl, hist >>

\* msg.cursor.send_feedback(flush_lsn=msg.data_start)
WorkerAck(t) ==
    /\ thr[t].role = "worker"
    /\ thr[t].pc = "ack"
    /\ lst' = [lst EXCEPT ![thr[t].l].acked = thr[t].msg]
    /\ thr' = [thr EXCEPT ![t].pc = "loop", ![t].msg = 0, ![t].ev = None]
    /\ UNCHANGED << enable_batching, listeners, handlers, event_queue,
                    queue_lock, batch_thread, stop_batching, metrics,
                    nthreads, ctl, hist >>

\* read_message() raises (connection loss, protocol violation): the
\* exception leaves the loop, is logged and raised again as CDCStreamError,
\* which ends the thread; the finally clause closes the connection
WorkerFault(t) ==
    /\ thr[t].role = "worker"
    /\ thr[t].pc = "loop"
    /\ ~lst[thr[t].l].stop_event
    /\ thr' = [thr EXCEPT ![t].pc = "faulted"]
    /\ UNCHANGED << enable_batching, listeners, handlers, event_queue,
                    queue_lock, batch_thread, stop_batching, metrics,
                    lst, nthreads, ctl, hist >>

StreamFault == \E t \in Spawned : WorkerFault(t)

Worker ==
    \E t \in Spawned :
        \/ WorkerExit(t)
        \/ WorkerRead(t)
        \/ WorkerAck(t)

(***************************************************************************)
(* CDCManager._batch_processor: a flush thread.  The model leaves the      *)
(* clock out: a wake-up at which batch_timeout has not elapsed changes     *)
(* nothing, so each wake-up modelled is one at which it has.               *)
(***************************************************************************)
\* while not self.stop_batching.is_set(): left when the flag is set
FlushExit(t) ==
    /\ thr[t].role = "flush"
    /\ thr[t].pc = "loop"
    /\ stop_batching
    /\ thr' = [thr EXCEPT ![t].pc = "exited"]
    /\ UNCHANGED << enable_batching, listeners, handlers, event_queue,
                    queue_lock, batch_thread, stop_batching, metrics,
                    lst, nthreads, ctl, hist >>

\* the flag was clear; time.sleep(0.5); elapsed >= self.batch_timeout
FlushWake(t) ==
    /\ thr[t].role = "flush"
    /\ thr[t].pc = "loop"
    /\ ~stop_batching
    /\ thr' = [thr EXCEPT ![t].pc = "f_lock"]
    /\ UNCHANGED << enable_batching, listeners, handlers, event_queue,
                    queue_lock, batch_thread, stop_batching, metrics,
                    lst, nthreads, ctl, hist >>

\* with self.queue_lock: if self.event_queue: copy, clear, _process_batch
FlushTake(t) ==
    /\ thr[t].role = "flush"
    /\ thr[t].pc = "f_lock"
    /\ queue_lock = Free
    /\ IF event_queue # <<>>
       THEN /\ queue_lock' = t
            /\ event_queue' = Cleared(event_queue)
            /\ Proceed(t, Entered(t, "time", CopyOf(event_queue), FALSE),
                       CopyOf(event_queue), 1, Handed(CopyOf(event_queue), TRUE))
            /\ ctl' = NoteFlush(CopyOf(event_queue))
       ELSE /\ thr' = [thr EXCEPT ![t].pc = "loop"]
            /\ UNCHANGED << queue_lock, event_queue, hist, ctl >>
    /\ UNCHANGED << enable_batching, listeners, handlers, batch_thread,
                    stop_batching, metrics, lst, nthreads >>

Flusher ==
    \E t \in Spawned :
        \/ FlushExit(t)
        \/ FlushWake(t)
        \/ FlushTake(t)

(***************************************************************************)
(* CDCManager.stop_all with PostgreSQLCDCListener.stop_streaming           *)
(***************************************************************************)
\* a handler call that has not returned
SomeHandlerHung == \E t \in Threads : thr[t].pc = "in_handler"

\* thread.join(timeout): returns when the thread has ended, or on timeout,
\* which takes a hung handler call
JoinReturns(j) == thr[j].pc \in {"exited", "faulted"} \/ SomeHandlerHung

\* if self.batch_thread:
HasBatchThread == batch_thread # 0

\* stop_all has returned
StopAllReturned ==
    [ctl EXCEPT !.call = "stop_all_returned", !.stop_queue = <<>>,
                !.stop_flushes = <<>>, !.sidx = 0]

\* a stop that leaves the stop flag alone
StopQuietly(rec) == [rec EXCEPT !.is_running = FALSE]

\* self.stop_event.set(); self.is_running = False
StopFlags(rec) == [rec EXCEPT !.stop_event = TRUE, !.is_running = FALSE]

\* a loop that a raising stop_streaming() ends
StopLoopEnds(i, raised) == IF raised THEN Len(listeners) + 1 ELSE i + 1

\* the registry index the loop of stop_all goes on from after the
\* stop_streaming() of the entry at index i returned or raised: the except
\* clause is inside the loop
AfterStop(i, raised) == i + 1

StopAllBegin ==
    /\ Main.pc = "idle"
    /\ ctl' = [Call("stop_all") EXCEPT !.sidx = 1,
                  !.stop_queue = event_queue, !.stop_flushes = <<>>]
    /\ thr' = [thr EXCEPT ![MainT].pc = "stop_listener"]
    /\ UNCHANGED << enable_batching, listeners, handlers, event_queue,
                    queue_lock, batch_thread, stop_batching, metrics,
                    lst, nthreads, hist >>

\* for name, listener in self.listeners.items(): listener.stop_streaming(),
\* up to its join; after the last listener, the flush thread is signalled
StopListener ==
    /\ Main.pc = "stop_listener"
    /\ IF ctl.sidx <= Len(listeners)
       THEN LET l == listeners[ctl.sidx].listener
            IN  IF ~lst[l].is_running
                THEN /\ ctl' = [ctl EXCEPT !.sidx = @ + 1]
                     /\ UNCHANGED << lst, thr, stop_batching >>
                ELSE IF lst[l].stream_thread = Unstarted
                THEN \* join() of a thread that was never started raises
                     \* RuntimeError, which the except clause of stop_all logs
                     /\ lst' = [lst EXCEPT ![l] = StopFlags(lst[l])]
                     /\ ctl' = [ctl EXCEPT !.sidx = AfterStop(@, TRUE),
                                           !.stop_failed = @ \cup {l}]
                     /\ UNCHANGED << thr, stop_batching >>
                ELSE /\ lst' = [lst EXCEPT ![l] = StopFlags(lst[l])]
                     /\ thr' = [thr EXCEPT ![MainT].pc =
                                   IF lst[l].stream_thread # 0
                                   THEN "join_stream" ELSE "stop_listener"]
                     /\ ctl' = IF lst[l].stream_thread # 0 THEN ctl
                               ELSE [ctl EXCEPT !.sidx = @ + 1]
                     /\ UNCHANGED stop_batching
       ELSE IF HasBatchThread
       THEN /\ stop_batching' = TRUE
            /\ thr' = [thr EXCEPT ![MainT].pc = "join_batch"]
            /\ UNCHANGED << lst, ctl >>
       ELSE /\ thr' = [thr EXCEPT ![MainT].pc = "idle"]
            /\ ctl' = StopAllReturned
            /\ UNCHANGED << lst, stop_batching >>
    /\ UNCHANGED << enable_batching, listeners, handlers, event_queue,
                    queue_lock, batch_thread, metrics, nthreads, hist >>

\* self.stream_thread.join(timeout=5)
JoinStream ==
    /\ Main.pc = "join_stream"
    /\ JoinReturns(lst[listeners[ctl.sidx].listener].stream_thread)
    /\ thr' = [thr EXCEPT ![MainT].pc = "stop_listener"]
    /\ ctl' = [ctl EXCEPT !.sidx = @ + 1]
    /\ UNCHANGED << enable_batching, listeners, handlers, event_queue,
                    queue_lock, batch_thread, stop_batching, metrics,
                    lst, nthreads, hist >>

\* self.batch_thread.join(timeout=10); if self.event_queue:
\* self._process_batch(self.event_queue)
JoinBatch ==
    /\ Main.pc = "join_batch"
    /\ JoinReturns(batch_thread)
    /\ IF event_queue # <<>>
       THEN /\ Proceed(MainT, Entered(MainT, "final", <<>>, TRUE), event_queue,
                       1, Handed(event_queue, FALSE))
            /\ ctl' = NoteFlush(event_queue)
       ELSE /\ thr' = [thr EXCEPT ![MainT].pc = "idle"]
            /\ ctl' = StopAllReturned
            /\ UNCHANGED hist
    /\ UNCHANGED << enable_batching, listeners, handlers, event_queue,
                    queue_lock, batch_thread, stop_batching, metrics,
                    lst, nthreads >>

\* self.event_queue.clear()
FinalClear ==
    /\ Main.pc = "final_clear"
    /\ event_queue' = Cleared(event_queue)
    /\ hist' = [hist EXCEPT !.pending = <<>>]
    /\ thr' = [thr EXCEPT ![MainT].pc = "idle"]
    /\ ctl' = StopAllReturned
    /\ UNCHANGED << enable_batching, listeners, handlers, queue_lock,
                    batch_thread, stop_batching, metrics, lst,
                    nthreads >>

StopAll == StopAllBegin \/ StopListener \/ JoinStream \/ JoinBatch \/ FinalClear

(***************************************************************************)
(* CDCManager.cleanup_all                                                  *)
(***************************************************************************)
\* a loop that a raising cleanup() ends
StopOnRaise(i, raised) == IF raised THEN Len(listeners) + 1 ELSE i + 1

\* the registry index the loop goes on from after cleanup() of the entry at
\* index i returned or raised: the except clause is inside the loop
AfterCleanup(i, raised) == i + 1

\* the listeners cleanup() is called on from registry index i on, in call
\* order, when cleanup() raises for the listeners in raising
RECURSIVE CleanupCalls(_, _)
CleanupCalls(i, raising) ==
    IF i > Len(listeners) THEN <<>>
    ELSE <<listeners[i].listener>> \o
         CleanupCalls(AfterCleanup(i, listeners[i].listener \in raising), raising)

\* cleanup_all(): every exception of a cleanup() is logged, none is raised
\* to the caller, the registry is not touched
cleanup_all(raising) ==
    /\ Main.pc = "idle"
    /\ LET calls == CleanupCalls(1, raising)
       IN  ctl' = [Call("cleanup_all") EXCEPT
                      !.before = listeners,
                      !.cleaned = calls,
                      !.cleanup_failed =
                          {l \in raising : InSeq(calls, l)}]
    /\ UNCHANGED << enable_batching, listeners, handlers, event_queue,
                    queue_lock, batch_thread, stop_batching, metrics,
                    lst, thr, nthreads, hist >>

CleanupAll == \E raising \in SUBSET ListenerIds : cleanup_all(raising)

(***************************************************************************)
(* CDCManager.get_status                                                   *)
(***************************************************************************)
\* the list object self.metrics['errors'], as a value of a dict
SharedErrors == "self.metrics['errors']"

\* self.metrics.copy(): a new dict with the values of the old one; the
\* counters are numbers, the value under 'errors' is the list itself
MetricsCopy(m) == [m EXCEPT !.errors = SharedErrors]

\* what a reader of a returned status finds in it: the list under 'errors'
\* is read when it is looked at
StatusRead(st) == [st EXCEPT !.metrics.errors = metrics.errors]

get_status ==
    /\ Main.pc = "idle"
    /\ ctl.status = None
    /\ ctl' = [ctl EXCEPT !.status =
                  Some([queue_size |-> Len(event_queue),
                        metrics |-> MetricsCopy(metrics)])]
    /\ UNCHANGED << enable_batching, listeners, handlers, event_queue,
                    queue_lock, batch_thread, stop_batching, metrics,
                    lst, thr, nthreads, hist >>

(***************************************************************************)
(* PostgreSQLCDCListener.start_streaming and stop_streaming called on a    *)
(* registered listener by the controlling thread, with the manager's       *)
(* _handle_change as the callback.                                         *)
(***************************************************************************)
\* the flags and the worker reference of listener l
Snap(l) ==
    [is_running |-> lst[l].is_running, stop_event |-> lst[l].stop_event,
     stream_thread |-> lst[l].stream_thread]

\* the call as the controlling thread sees it: the listener, its flags and
\* the number of threads spawned before the call
OnListener(name, l) ==
    [Call(name) EXCEPT !.listener = l, !.snap = Snap(l), !.spawned = nthreads]

\* a running check that never finds the listener running
NeverRunning(l) == FALSE

\* if self.is_running: return
AlreadyRunning(l) == lst[l].is_running

start_streaming(l) ==
    /\ Main.pc = "idle"
    /\ l \in Registered
    /\ ctl' = OnListener("start_streaming", l)
    /\ IF AlreadyRunning(l)
       THEN UNCHANGED << lst, thr, nthreads >>
       ELSE /\ nthreads < Cardinality(Spawned)
            /\ nthreads' = nthreads + 1
            /\ lst' = [lst EXCEPT ![l].is_running = TRUE,
                                  ![l].stop_event = FALSE,
                                  ![l].rd = lst[l].acked,
                                  ![l].stream_thread = nthreads + 1]
            /\ thr' = [thr EXCEPT ![nthreads + 1] =
                         [NoThread EXCEPT !.role = "worker", !.pc = "loop",
                                          !.l = l]]
    /\ UNCHANGED << enable_batching, listeners, handlers, event_queue,
                    queue_lock, batch_thread, stop_batching, metrics, hist >>

StartStreaming == \E l \in ListenerIds : start_streaming(l)

\* stop_streaming up to its join
stop_streaming(l) ==
    /\ Main.pc = "idle"
    /\ l \in Registered
    /\ ctl' = OnListener("stop_streaming", l)
    /\ IF ~lst[l].is_running
       THEN UNCHANGED << lst, thr >>
       ELSE /\ lst' = [lst EXCEPT ![l] = StopFlags(lst[l])]
            /\ thr' = IF lst[l].stream_thread # 0
                      THEN [thr EXCEPT ![MainT].pc = "join_listener"]
                      ELSE thr
    /\ UNCHANGED << enable_batching, listeners, handlers, event_queue,
                    queue_lock, batch_thread, stop_batching, metrics,
                    nthreads, hist >>

StopStreaming == \E l \in ListenerIds : stop_streaming(l)

\* self.stream_thread.join(timeout=5), and stop_streaming returns
JoinListener ==
    /\ Main.pc = "join_listener"
    /\ JoinReturns(lst[ctl.listener].stream_thread)
    /\ thr' = [thr EXCEPT ![MainT].pc = "idle"]
    /\ UNCHANGED << enable_batching, listeners, handlers, event_queue,
                    queue_lock, batch_thread, stop_batching, metrics,
                    lst, nthreads, ctl, hist >>

\* one listener is registered
SetupOneListener ==
    /\ listeners = <<>>
    /\ \E l \in ListenerIds : register_listener(NameOf(l), l, TRUE, FALSE)

NextListener ==
    \/ SetupOneListener
    \/ SetupCdcHandler
    \/ StartStreaming
    \/ StopStreaming
    \/ JoinListener
    \/ Worker
    \/ StreamFault
    \/ HandleChange
    \/ HandlerCall
    \/ Return

SpecListener == Init /\ [][NextListener]_vars

(***************************************************************************)
(* PostgreSQLCDCListener.resume_from_position called on a registered       *)
(* listener by the controlling thread, before, while or after it streams   *)
(* into a manager without handlers.                                        *)
(***************************************************************************)
\* the markers passed: an empty string, a string that is no LSN, an LSN
Markers == {"", "not-an-lsn", "0/16B2D80"}

\* a resume that also rewinds the slot's stream
RewindTo(rec, m) == [rec EXCEPT !.current_position = Some(m), !.rd = 0]

\* self.current_position = position
Resumed(rec, m) == [rec EXCEPT !.current_position = Some(m)]

\* what resume_from_position raises for marker m: the marker is not looked at
ResumeRaises(m) == "none"

\* the call is recorded with the marker, the position before it and the
\* listener's flags
resume_from_position(l, m) ==
    /\ Main.pc = "idle"
    /\ l \in Registered
    /\ ctl' = [OnListener("resume_from_position", l) EXCEPT
                  !.name = m, !.before = lst[l].current_position,
                  !.raised = ResumeRaises(m)]
    /\ lst' = [lst EXCEPT ![l] = Resumed(lst[l], m)]
    /\ UNCHANGED << enable_batching, listeners, handlers, event_queue,
                    queue_lock, batch_thread, stop_batching, metrics,
                    thr, nthreads, hist >>

ResumeFromPosition ==
    \E l \in ListenerIds, m \in Markers : resume_from_position(l, m)

NextResume ==
    \/ SetupOneListener
    \/ ResumeFromPosition
    \/ StartStreaming
    \/ StopStreaming
    \/ JoinListener
    \/ Worker
    \/ HandleChange
    \/ Return

SpecResume == Init /\ [][NextResume]_vars

(***************************************************************************)
(* GraphSyncHandler on a graph database.  The graph is the set of its      *)
(* nodes, a node its label and the value of its id property; the manager   *)
(* passes the handler the events it accepts, one by handle_change with     *)
(* batching disabled, a batch by handle_batch with batching enabled.       *)
(***************************************************************************)
Node(label, id) == [label |-> label, id |-> id]

\* node_type.label of the node type a table maps to
LabelOf(table) == IF table = "patients" THEN "Patient" ELSE "Visit"

\* node_type.primary_key of the node type a table maps to
KeyOf(table) == "id"

\* the JSON number 0 as a column value (the other values are strings)
JsonZero == "0 (number)"

\* the graphs the handler starts on
Graphs ==
    SUBSET {Node("Patient", "1"), Node("Patient", "2"), Node("Doctor", "1"),
            Node("Patient", JsonZero), Node("Patient", "")}

\* the events delivered: inserts and deletes of two rows, an update and a
\* truncate of the mapped table, a truncate of a table that is not mapped
GraphEvents ==
    { ChangeEvent(c, "") :
        c \in { Change("I", Absent, "public", "patients",
                       Some(<<Col("id", "1")>>), None, Absent, "0/1"),
                Change("I", Absent, "public", "patients",
                       Some(<<Col("id", "2")>>), None, Absent, "0/2"),
                Change("U", Absent, "public", "patients",
                       Some(<<Col("id", "1")>>), Some(<<Col("id", "1")>>),
                       Absent, "0/3"),
                Change("D", Absent, "public", "patients",
                       None, Some(<<Col("id", "1")>>), Absent, "0/4"),
                Change("T", Absent, "public", "patients",
                       None, None, Absent, "0/5"),
                Change("T", Absent, "public", "doctors",
                       None, None, Absent, "0/6"),
                Change("U", Absent, "public", "patients",
                       Some(<<Col("id", JsonZero)>>),
                       Some(<<Col("id", JsonZero)>>), Absent, "0/7"),
                Change("D", Absent, "public", "patients",
                       None, Some(<<Col("id", "")>>), Absent, "0/8"),
                Change("D", Absent, "public", "patients",
                       None, Some(<<Col("name", "Amy")>>), Absent, "0/9"),
                Change("D", Absent, "public", "patients",
                       None, None, Absent, "0/10") } }

\* the value of a key in an optional dict, Absent without it
ValueIn(optdict, key) ==
    IF IsSome(optdict) /\ key \in DOMAIN The(optdict)
    THEN The(optdict)[key] ELSE Absent

\* a call of the graph database: create_node, or execute_query with the
\* merge, detach-delete or truncate query
Query(kind, label, value) == [kind |-> kind, label |-> label, value |-> value]

\* the graph after a call of the graph database
Run(g, q) ==
    CASE q.kind = "create" -> g \cup {Node(q.label, q.value)}
      [] q.kind = "merge" -> g
      [] q.kind = "delete" -> g \ {Node(q.label, q.value)}
      [] q.kind = "truncate" -> {n \in g : n.label # q.label}

\* the graph after a sequence of calls
RunAll(g, qs) ==
    LET run[i \in 0..Len(qs)] == IF i = 0 THEN g ELSE Run(run[i - 1], qs[i])
    IN  run[Len(qs)]

\* if pk_value: Python truth of the value under the key; None (no such
\* key), the empty string and the number 0 are false
PyTrue(v) == v \notin {Absent, "", JsonZero}

\* if event.primary_key and node_type.primary_key:
\*     pk_value = event.primary_key.get(node_type.primary_key)
\*     if pk_value: execute_query(...)
KeyedQueries(kind, e) ==
    IF Truthy(e.primary_key) /\ PyTrue(ValueIn(e.primary_key, KeyOf(e.table)))
    THEN << Query(kind, LabelOf(e.table), ValueIn(e.primary_key, KeyOf(e.table))) >>
    ELSE <<>>

\* the calls of the graph database each operation makes
insert_queries(e) ==
    << Query("create", LabelOf(e.table), ValueIn(e.new_data, KeyOf(e.table))) >>
update_queries(e) == KeyedQueries("merge", e)
delete_queries(e) == KeyedQueries("delete", e)
truncate_queries(e) == << Query("truncate", LabelOf(e.table), Absent) >>

\* GraphSyncHandler._handle_insert: create_node(label, properties)
handle_insert(g, e) == RunAll(g, insert_queries(e))

\* GraphSyncHandler._handle_update: SET n += $properties on the matched node
handle_update(g, e) == RunAll(g, update_queries(e))

\* GraphSyncHandler._handle_delete: DETACH DELETE of the node matched by key
handle_delete(g, e) == RunAll(g, delete_queries(e))

\* GraphSyncHandler._handle_truncate: MATCH (n:label) DETACH DELETE n
handle_truncate(g, e) == RunAll(g, truncate_queries(e))

\* the calls of the graph database handle_change(e) makes
change_queries(e) ==
    CASE e.operation = "INSERT" -> insert_queries(e)
      [] e.operation = "UPDATE" -> update_queries(e)
      [] e.operation = "DELETE" -> delete_queries(e)
      [] e.operation = "TRUNCATE" -> truncate_queries(e)
      [] OTHER -> <<>>

\* the calls handle_change makes for each event of a list in turn
RECURSIVE EachQueries(_)
EachQueries(events) ==
    IF events = <<>> THEN <<>>
    ELSE change_queries(Head(events)) \o EachQueries(Tail(events))

\* the calls of the graph database handle_batch(events) makes: for the
\* inserts, then the updates, then the deletes
batch_queries(events) ==
    EachQueries(SelectSeq(events, LAMBDA e : e.operation = "INSERT"))
      \o EachQueries(SelectSeq(events, LAMBDA e : e.operation = "UPDATE"))
      \o EachQueries(SelectSeq(events, LAMBDA e : e.operation = "DELETE"))

\* GraphSyncHandler.handle_change
handle_change(g, e) ==
    CASE e.operation = "INSERT" -> handle_insert(g, e)
      [] e.operation = "UPDATE" -> handle_update(g, e)
      [] e.operation = "DELETE" -> handle_delete(g, e)
      [] e.operation = "TRUNCATE" -> handle_truncate(g, e)
      [] OTHER -> g

\* GraphSyncHandler.handle_batch: the events are sorted into inserts,
\* updates and deletes, and the three lists are applied in this order
handle_batch(g, events) ==
    LET inserts == SelectSeq(events, LAMBDA e : e.operation = "INSERT")
        updates == SelectSeq(events, LAMBDA e : e.operation = "UPDATE")
        deletes == SelectSeq(events, LAMBDA e : e.operation = "DELETE")
        ins[i \in 0..Len(inserts)] ==
            IF i = 0 THEN g ELSE handle_insert(ins[i - 1], inserts[i])
        upd[i \in 0..Len(updates)] ==
            IF i = 0 THEN ins[Len(inserts)]
            ELSE handle_update(upd[i - 1], updates[i])
        del[i \in 0..Len(deletes)] ==
            IF i = 0 THEN upd[Len(updates)]
            ELSE handle_delete(del[i - 1], deletes[i])
    IN  del[Len(deletes)]

\* the lists of events the manager dispatches at once: one event with
\* batching disabled, a batch with it enabled
Dispatched ==
    IF enable_batching
    THEN {<<e>> : e \in GraphEvents} \cup
         {<<e1, e2>> : e1 \in GraphEvents, e2 \in GraphEvents}
    ELSE {<<e>> : e \in GraphEvents}

\* _process_event / _process_batch with the graph handler registered: the
\* handler gets the events it accepts, if any
GraphDeliver ==
    /\ ctl.ndirect < MaxDirect
    /\ \E events \in Dispatched :
         LET sub == handler_events(events, "GraphSyncHandler")
         IN  ctl' = [ctl EXCEPT
                        !.call = "deliver", !.ndirect = @ + 1,
                        !.delivered = sub,
                        !.queries = IF sub = <<>> THEN <<>>
                                    ELSE IF enable_batching
                                    THEN batch_queries(sub)
                                    ELSE change_queries(sub[1]),
                        !.graph = IF sub = <<>> THEN @
                                  ELSE IF enable_batching
                                  THEN handle_batch(@, sub)
                                  ELSE handle_change(@, sub[1])]
    /\ UNCHANGED << enable_batching, listeners, handlers, event_queue,
                    queue_lock, batch_thread, stop_batching, metrics,
                    lst, thr, nthreads, hist >>

InitGraph ==
    /\ Fresh
    /\ ctl \in {[NoCall EXCEPT !.graph = g] : g \in Graphs}

NextGraph == GraphDeliver

SpecGraph == InitGraph /\ [][NextGraph]_vars

(***************************************************************************)
(* PostgreSQLCDCListener.setup called on its own against a source database *)
(* from a bounded set.  The database raises on the creation of an object    *)
(* whose name is taken, as PostgreSQL does.                                *)
(***************************************************************************)
\* the defaults of PostgreSQLCDCListener.__init__
publication_name == "graph_sync_pub"
slot_name == "graph_sync_slot"

\* self.tables: None, an empty list or a list of tables
TableOptions == {None, Some(<<>>), Some(<<"patients">>)}

\* a publication's scope: FOR ALL TABLES, or the tables of FOR TABLE ...
AllTables == <<"ALL TABLES">>

Publication(name, scope) == [pubname |-> name, scope |-> scope]
Slot(name, plugin) == [slot_name |-> name, plugin |-> plugin]

\* the databases setup is run against
Databases ==
    { [wal_level |-> w, pubs |-> ps, slots |-> ss] :
        w \in {"logical", "replica", "minimal"},
        ps \in SUBSET {Publication(publication_name, AllTables),
                       Publication("other_pub", AllTables)},
        ss \in SUBSET {Slot(slot_name, "wal2json"),
                       Slot("other_slot", "pgoutput")} }

\* what a call may meet: no fault, a connection that cannot be opened, a
\* slot that cannot be created
SetupFaults == {"none", "connect", "slot"}

\* an existence check that never finds the object
NoSuchObject(db) == FALSE

\* SELECT 1 FROM pg_publication WHERE pubname = %s
PublicationExists(db) == \E p \in db.pubs : p.pubname = publication_name

\* SELECT 1 FROM pg_replication_slots WHERE slot_name = %s
SlotExists(db) == \E sl \in db.slots : sl.slot_name = slot_name

\* if self.tables: FOR TABLE ... else FOR ALL TABLES
PublicationScope(tables) ==
    IF IsSome(tables) /\ The(tables) # <<>> THEN The(tables) ELSE AllTables

\* the outcome of setup: the database after it and what it raised
SetupResult(db, raised) == [db |-> db, raised |-> raised]

\* CREATE PUBLICATION: an error when the name is taken
CreatePublication(db, tables) ==
    IF \E p \in db.pubs : p.pubname = publication_name
    THEN SetupResult(db, "CDCSetupError")
    ELSE SetupResult([db EXCEPT !.pubs = @ \cup
                         {Publication(publication_name, PublicationScope(tables))}],
                     "none")

\* create_replication_slot(slot_name, output_plugin='wal2json'): an error
\* when the name is taken or the slot cannot be created
CreateSlot(db, fault) ==
    IF fault = "slot" \/ \E sl \in db.slots : sl.slot_name = slot_name
    THEN SetupResult(db, "CDCSetupError")
    ELSE SetupResult([db EXCEPT !.slots = @ \cup {Slot(slot_name, "wal2json")}],
                     "none")

\* setup(): every exception leaves it as CDCSetupError
setup(db, tables, fault) ==
    IF fault = "connect" THEN SetupResult(db, "CDCSetupError")
    ELSE IF db.wal_level # "logical" THEN SetupResult(db, "CDCSetupError")
    ELSE LET pub == IF PublicationExists(db)
                    THEN SetupResult(db, "none")
                    ELSE CreatePublication(db, tables)
         IN  IF pub.raised # "none" THEN pub
             ELSE IF SlotExists(pub.db) THEN pub
             ELSE CreateSlot(pub.db, fault)

\* the controlling thread calls setup(); the call is logged with the
\* database before and after it
Setup ==
    /\ ctl.call \in {"none", "setup"}
    /\ Len(ctl.setup_log) < MaxSetup
    /\ \E fault \in SetupFaults :
         LET res == setup(ctl.db, ctl.tables, fault)
         IN  ctl' = [ctl EXCEPT !.call = "setup", !.raised = res.raised,
                        !.db = res.db,
                        !.setup_log = Append(@,
                            [before |-> ctl.db, after |-> res.db,
                             raised |-> res.raised, fault |-> fault])]
    /\ UNCHANGED << enable_batching, listeners, handlers, event_queue,
                    queue_lock, batch_thread, stop_batching, metrics,
                    lst, thr, nthreads, hist >>

InitSetup ==
    /\ Fresh
    /\ ctl \in {[NoCall EXCEPT !.db = d, !.tables = tb] :
                   d \in Databases, tb \in TableOptions}

NextSetup == Setup

SpecSetup == InitSetup /\ [][NextSetup]_vars

(***************************************************************************)
(* PostgreSQLCDCListener._parse_wal2json called on its own, with a payload *)
(* from a bounded set.                                                     *)
(***************************************************************************)
PayloadChanges ==
    { Change(a, k, sc, tb, cols, ident, "2024-01-15", Absent) :
        a \in {"I", "U", "D", "T", "B", "C", "X", Absent},
        k \in {Absent, "U", "D", "insert"},
        sc \in {Absent, "public", "hr"},
        tb \in {Absent, "", "patients"},
        cols \in {None, Some(<<>>), Some(<<Col("id", "7")>>),
                  Some(<<Col("id", "7"), Col("name", "Amy")>>),
                  Some(<<Col("name", "Amy")>>), Some(<<Col(Absent, "7")>>)},
        ident \in {None, Some(<<>>), Some(<<Col("id", "9")>>)} }

Payloads ==
    {Garbage, Wrapped(<<>>)}
        \cup {Flat(c) : c \in PayloadChanges}
        \cup {Wrapped(<<c>>) : c \in PayloadChanges}

\* self.current_position when the parser is called on its own
ParsePosition == PositionStr(1, 1)

ParseMessage ==
    /\ ctl.call = "none"
    /\ IsSome(ctl.payload)
    /\ ctl' = [ctl EXCEPT !.call = "_parse_wal2json",
                          !.parsed = parse_wal2json(The(ctl.payload), ParsePosition)]
    /\ UNCHANGED << enable_batching, listeners, handlers, event_queue,
                    queue_lock, batch_thread, stop_batching, metrics,
                    lst, thr, nthreads, hist >>

InitParse ==
    /\ Fresh
    /\ ctl \in {[NoCall EXCEPT !.payload = Some(p)] : p \in Payloads}

NextParse == ParseMessage

SpecParse == InitParse /\ [][NextParse]_vars

(***************************************************************************)
(* Registration on its own: any name, listener object and auto_setup, a    *)
(* setup() that returns or raises, and the handlers in any order.          *)
(***************************************************************************)
NextReg == RegisterListener \/ AddHandler \/ CleanupAll

SpecReg == Init /\ [][NextReg]_vars

(***************************************************************************)
(* A manager whose registry of listeners is empty: start_all returns       *)
(* before it starts anything, the events come from direct calls of         *)
(* _handle_change.                                                         *)
(***************************************************************************)
NextDirect ==
    \/ AddHandler
    \/ start_all
    \/ DirectHandleChange
    \/ HandleChange
    \/ HandlerCall
    \/ Return
    \/ StopAllBegin
    \/ StopListener
    \/ get_status

SpecDirect == Init /\ [][NextDirect]_vars

(***************************************************************************)
(* Bring-up: the listeners are registered and start_all is called, once    *)
(* with a listener whose worker thread cannot be started; the workers that *)
(* did start stream into a manager without handlers.                       *)
(***************************************************************************)
NextBringUp ==
    \/ SetupCdcListener
    \/ StartAllFailing
    \/ start_all
    \/ StopAll
    \/ Worker
    \/ Flusher
    \/ HandleChange
    \/ Return

SpecBringUp == Init /\ [][NextBringUp]_vars

(***************************************************************************)
(* A manager one of whose handlers has a can_handle that raises, fed by    *)
(* one listener.                                                           *)
(***************************************************************************)
InitFilter ==
    /\ Fresh
    /\ ctl \in {[NoCall EXCEPT !.faulty = {h}] : h \in HandlerPool}

NextFilter ==
    \/ SetupOneListener
    \/ SetupCdcHandler
    \/ start_all
    \/ StopAll
    \/ HandleChange
    \/ HandlerCall
    \/ Return
    \/ FilterFault
    \/ Worker
    \/ Flusher

SpecFilter == InitFilter /\ [][NextFilter]_vars

(***************************************************************************)
(* A running manager with batching enabled and one listener whose slot     *)
(* holds the long stream: the worker's size-triggered flushes and the      *)
(* flush thread's time-triggered flushes interleave.  The manager is not   *)
(* stopped.                                                                *)
(***************************************************************************)
\* the workers' read loop while the stop flag is clear
Streaming == \E t \in Spawned : WorkerRead(t) \/ WorkerAck(t)

\* the flush threads' loop while the stop flag is clear
Flushing == \E t \in Spawned : FlushWake(t) \/ FlushTake(t)

InitOrder ==
    /\ Fresh
    /\ enable_batching
    /\ ctl = [NoCall EXCEPT !.slot = "long"]

NextOrder ==
    \/ SetupOneListener
    \/ SetupCdcHandler
    \/ start_all
    \/ HandleChange
    \/ HandlerCall
    \/ Return
    \/ Streaming
    \/ Flushing

SpecOrder == InitOrder /\ [][NextOrder]_vars

(***************************************************************************)
(* One listener whose slot holds wrapped envelopes, started and stopped by *)
(* the controlling thread, streaming into a manager without handlers.      *)
(***************************************************************************)
InitEnvelope ==
    /\ Fresh
    /\ ctl = [NoCall EXCEPT !.slot = "envelopes"]

NextEnvelope ==
    \/ SetupOneListener
    \/ StartStreaming
    \/ StopStreaming
    \/ JoinListener
    \/ Worker
    \/ HandleChange
    \/ Return

SpecEnvelope == InitEnvelope /\ [][NextEnvelope]_vars

(***************************************************************************)
(* The system.                                                             *)
(***************************************************************************)
Next ==
    \/ SetupCdcListener
    \/ SetupCdcHandler
    \/ start_all
    \/ StopAll
    \/ HandleChange
    \/ HandlerCall
    \/ Return
    \/ Worker
    \/ Flusher

Spec == Init /\ [][Next]_vars

(***************************************************************************)
(* Properties.                                                             *)
(***************************************************************************)
\* the identities of a list of events, in the list's order
IdSeq(events) == [i \in 1..Len(events) |-> Id(events[i])]

\* the registered handlers that accept at least one of the events, in
\* registration order
Accepting(events) ==
    SelectSeq(handlers,
              LAMBDA h : \E k \in DOMAIN events : can_handle(h, events[k]))

\* the events of a list that handler h accepts, in the list's order
Subset(events, h) == SelectSeq(events, LAMBDA e : can_handle(h, e))

\* C1: size-triggered flush.  With batching enabled, a flush started by
\* _handle_change runs on the ingesting thread before its call returns; its
\* batch is exactly BatchSize events, the events appended since the queue
\* was last emptied in arrival order, the last of them the event of this
\* call; the queue is empty from the flush to the call's return.  An append
\* that leaves fewer than BatchSize events starts no flush, and no append
\* leaves BatchSize events in the queue past its call.
C1_SizeTriggeredFlush ==
    /\ \A t \in Threads :
         thr[t].kind = "size" =>
            /\ enable_batching
            /\ thr[t].pc \in {"in_handler", "return"}
            /\ Len(thr[t].events) = BatchSize
            /\ IdSeq(thr[t].events) = thr[t].expect
            /\ IsSome(thr[t].ev)
            /\ thr[t].events[BatchSize] = The(thr[t].ev)
            /\ event_queue = <<>>
            /\ queue_lock = t
    /\ queue_lock = Free => Len(event_queue) < BatchSize

\* a worker's BatchSize-th event has been flushed by its own thread and the
\* call is about to return
C1_Witness ==
    \E t \in Spawned :
        /\ thr[t].role = "worker"
        /\ thr[t].kind = "size"
        /\ thr[t].pc = "return"
        /\ Len(thr[t].events) = BatchSize
        /\ event_queue = <<>>

\* C2: time-triggered flush.  With batching enabled and the manager
\* running, a flush by the flush thread takes all the queued events, fewer
\* than BatchSize and at least one, in arrival order, and leaves the queue
\* empty; the handlers called are, in registration order, exactly the
\* handlers that accept at least one event of the batch, each with the
\* events of the batch it accepts.
C2_TimeTriggeredFlush ==
    \A t \in Threads :
        thr[t].kind = "time" =>
            /\ enable_batching
            /\ thr[t].role = "flush"
            /\ Len(thr[t].events) > 0
            /\ Len(thr[t].events) < BatchSize
            /\ IdSeq(thr[t].events) = thr[t].expect
            /\ event_queue = <<>>
            /\ queue_lock = t
            /\ LET acc == Accepting(thr[t].events)
                   called == thr[t].called
               IN  /\ Len(called) <= Len(acc)
                   /\ \A i \in DOMAIN called :
                        /\ called[i].handler = acc[i]
                        /\ called[i].events = Subset(thr[t].events, acc[i])
                   /\ thr[t].pc = "return" => Len(called) = Len(acc)
                   /\ thr[t].pc = "in_handler" =>
                        called[Len(called)].outcome = "running"

\* two queued events of different tables were flushed on timeout to both
\* handlers, the first handler getting only the event it accepts
C2_Witness ==
    \E t \in Spawned :
        /\ thr[t].kind = "time"
        /\ thr[t].pc = "return"
        /\ Len(thr[t].events) = 2
        /\ Len(thr[t].called) = 2
        /\ Len(thr[t].called[1].events) = 1
        /\ Len(thr[t].called[2].events) = 2
        /\ event_queue = <<>>

\* the handlers after index a that accept at least one of the events
Later(events, a) ==
    {j \in (a + 1)..Len(handlers) :
        \E k \in DOMAIN events : can_handle(handlers[j], events[k])}

\* in a flush of a copied batch, the call after a call that raised is the
\* call of the next accepting handler with its subset, and the loop ends
\* after a call that raised only when no accepting handler is left
C3_LoopGoesOn ==
    \A t \in Threads :
        thr[t].kind \in {"size", "time"} =>
            \A i \in DOMAIN thr[t].called :
                thr[t].called[i].outcome = "raised" =>
                    LET a == IndexOf(handlers, thr[t].called[i].handler)
                        later == Later(thr[t].events, a)
                    IN  IF i = Len(thr[t].called)
                        THEN thr[t].pc = "return" /\ later = {}
                        ELSE /\ later # {}
                             /\ \A j \in later :
                                  j >= IndexOf(handlers, thr[t].called[i + 1].handler)
                             /\ IndexOf(handlers, thr[t].called[i + 1].handler) \in later
                             /\ thr[t].called[i + 1].events =
                                  Subset(thr[t].events, thr[t].called[i + 1].handler)

\* a handle_batch call that ends: when it raised, events_failed grows by
\* the size of the handler's subset and one error record with the handler
\* and the event count is appended; when it returned, events_processed
\* grows by the size of the subset
C3_Accounted ==
    \A t \in Threads :
        (thr[t].pc = "in_handler" /\ thr[t].kind # "single" /\ thr'[t] # thr[t]) =>
            LET c == thr'[t].called[Len(thr[t].called)]
            IN  /\ c.handler = handlers[thr[t].h]
                /\ c.events = thr[t].sub
                /\ thr'[t].pc \in {"in_handler", "return"}
                /\ IF c.outcome = "raised"
                   THEN /\ metrics'.events_failed =
                              metrics.events_failed + Len(c.events)
                        /\ metrics'.events_processed = metrics.events_processed
                        /\ metrics'.batches_processed = metrics.batches_processed
                        /\ Len(metrics'.errors) = Len(metrics.errors) + 1
                        /\ SubSeq(metrics'.errors, 1, Len(metrics.errors)) =
                              metrics.errors
                        /\ metrics'.errors[Len(metrics'.errors)].handler = c.handler
                        /\ metrics'.errors[Len(metrics'.errors)].event_count =
                              Len(c.events)
                   ELSE /\ c.outcome = "ok"
                        /\ metrics'.events_processed =
                              metrics.events_processed + Len(c.events)
                        /\ metrics'.events_failed = metrics.events_failed
                        /\ metrics'.errors = metrics.errors

\* C3: handler fault isolation in a flush.  When handle_batch of a handler
\* A raises during _process_batch, the handlers registered after A that
\* accept an event of the batch are still called in the same flush with
\* their subsets, _process_batch returns normally, events_failed grows by
\* the size of A's subset with one error record appended, and
\* events_processed grows by the size of the subset of each handler that
\* returns.
C3_FaultIsolation == []C3_LoopGoesOn /\ [][C3_Accounted]_vars

\* the first handler raised on its subset, the second was then called with
\* its own and returned, and the metrics show both
C3_Witness ==
    \E t \in Threads :
        /\ thr[t].kind \in {"size", "time"}
        /\ thr[t].pc = "return"
        /\ Len(thr[t].called) = 2
        /\ thr[t].called[1].handler = handlers[1]
        /\ thr[t].called[1].outcome = "raised"
        /\ thr[t].called[2].handler = handlers[2]
        /\ thr[t].called[2].outcome = "ok"
        /\ thr[t].called[1].events # thr[t].called[2].events
        /\ metrics.events_failed = Len(thr[t].called[1].events)
        /\ metrics.events_processed = Len(thr[t].called[2].events)
        /\ Len(metrics.errors) = 1
        /\ metrics.errors[1].handler = handlers[1]

\* stop_all returns
StopAllReturns ==
    /\ ctl.call = "stop_all"
    /\ ctl'.call = "stop_all_returned"

\* C4: final flush on shutdown.  With batching enabled and M events queued
\* when stop_all is called, 0 < M < BatchSize, exactly one flush starts
\* while stop_all runs, its batch is those M events, and the queue is empty
\* when stop_all returns, so that get_status reports queue_size = 0.
C4_FinalFlush ==
    [][(/\ StopAllReturns
        /\ enable_batching
        /\ Len(ctl.stop_queue) > 0
        /\ Len(ctl.stop_queue) < BatchSize)
       => (/\ ctl.stop_flushes = << ctl.stop_queue >>
           /\ event_queue' = <<>>)]_vars

\* every thread start_all spawned has ended
AllJoined == \A t \in Spawned : ~Alive(t)

\* C5: no queued event is lost on clean shutdown.  With batching enabled,
\* when stop_all has returned and every worker and flush thread has ended,
\* every event that was appended to the queue has been passed to
\* _process_batch and the queue is empty, also when no flush thread was
\* ever started.
C5_NoQueuedEventLost ==
    (enable_batching /\ ctl.call = "stop_all_returned" /\ AllJoined) =>
        /\ hist.appended \subseteq hist.flushed
        /\ event_queue = <<>>

\* C6: at-least-once delivery.  A message whose offset has been
\* acknowledged to the source parsed to no event, or its event has been
\* handed to the entry point of every registered handler that accepts it.
C6_AckAfterDelivery ==
    \A l \in ListenerIds :
        \A k \in 1..lst[l].acked :
            IsSome(EventOfMsg(l, k)) =>
                \A i \in DOMAIN handlers :
                    can_handle(handlers[i], The(EventOfMsg(l, k))) =>
                        << Id(The(EventOfMsg(l, k))), handlers[i] >> \in hist.offered

\* C7: slow handlers never block ingestion.  A thread that is inside a
\* handler's handle_batch or handle_change does not hold the queue lock.
C7_NoLockInHandler ==
    \A t \in Threads : thr[t].pc = "in_handler" => queue_lock # t

\* C8: duplicate registration.  A register_listener call whose name was
\* already a key of the registry raises CDCError, leaves the registry as it
\* was and does not call setup() of the listener passed.
C8_DuplicateRejected ==
    (ctl.call = "register_listener"
        /\ \E i \in DOMAIN ctl.before : ctl.before[i].name = ctl.name) =>
        /\ ctl.raised = "CDCError"
        /\ listeners = ctl.before
        /\ lst[ctl.listener].setup_calls = ctl.setups

\* a second listener object was offered under a registered name and
\* rejected, its setup() never called
C8_Witness ==
    /\ ctl.call = "register_listener"
    /\ ctl.raised = "CDCError"
    /\ Len(listeners) = 1
    /\ listeners[1].name = ctl.name
    /\ listeners[1].listener # ctl.listener
    /\ lst[ctl.listener].setup_calls = 0

\* C9: registration with failing setup.  When register_listener is called
\* with an unregistered name and auto_setup and setup() raises, the
\* registry is as it was before the call: the name is not registered.
C9_FailedSetupUnregistered ==
    (ctl.call = "register_listener" /\ ctl.raised = "CDCSetupError") =>
        /\ listeners = ctl.before
        /\ \A i \in DOMAIN listeners : listeners[i].name # ctl.name

\* the change a payload carries, when json.loads accepts it and it has one
HasChange(p) == p.json_ok /\ p.changes # <<>>

\* the action code of a change: its 'action', or without one its 'kind'
CodeOf(c) == IF c.action # Absent THEN c.action ELSE c.kind

\* a change whose fields the parser reads are all there and of the right
\* shape: a table name, a schema, named columns
WellFormed(c) ==
    /\ c.table \notin {Absent, ""}
    /\ c.schema # Absent
    /\ \A cols \in {c.columns, c.identity} :
         IsSome(cols) => \A i \in DOMAIN The(cols) : The(cols)[i].name # Absent

\* C10: action mapping in parsing.  For a well-formed change payload with a
\* table name, _parse_wal2json returns an event whose operation is INSERT,
\* UPDATE, DELETE, TRUNCATE for the action (or kind) I, U, D, T and whose
\* table and schema are the payload's; for the action B or C it returns no
\* event.
C10_ActionMapping ==
    (ctl.call = "_parse_wal2json" /\ HasChange(The(ctl.payload))) =>
        LET c == The(ctl.payload).changes[1]
            code == CodeOf(c)
        IN  /\ (WellFormed(c) /\ code \in {"I", "U", "D", "T"}) =>
                 /\ IsSome(ctl.parsed)
                 /\ The(ctl.parsed).operation =
                      (CASE code = "I" -> "INSERT"
                         [] code = "U" -> "UPDATE"
                         [] code = "D" -> "DELETE"
                         [] code = "T" -> "TRUNCATE")
                 /\ The(ctl.parsed).table = c.table
                 /\ The(ctl.parsed).schema = c.schema
            /\ code \in {"B", "C"} => IsNone(ctl.parsed)

\* an update of hr.patients given by its 'kind' was parsed
C10_Witness ==
    /\ ctl.call = "_parse_wal2json"
    /\ HasChange(The(ctl.payload))
    /\ The(ctl.payload).changes[1].action = Absent
    /\ The(ctl.payload).changes[1].kind = "U"
    /\ The(ctl.payload).changes[1].schema = "hr"
    /\ IsSome(ctl.parsed)
    /\ The(ctl.parsed).operation = "UPDATE"
    /\ The(ctl.parsed).table = "patients"
    /\ The(ctl.parsed).schema = "hr"

\* d is the name -> value mapping of a column array
IsMappingOf(d, cols) ==
    /\ DOMAIN d = {cols[i].name : i \in DOMAIN cols}
    /\ \A i \in DOMAIN cols : d[cols[i].name] = cols[i].value

\* an optional dict is the mapping of an optional column array
IsDataOf(optdict, optcols) ==
    IF IsSome(optcols)
    THEN IsSome(optdict) /\ IsMappingOf(The(optdict), The(optcols))
    ELSE IsNone(optdict)

\* the key derived from new_data: {id: new_data[id]}, or absent
IdKeyOf(new_data) ==
    IF IsSome(new_data) /\ "id" \in DOMAIN The(new_data)
    THEN Some([n \in {"id"} |-> The(new_data)["id"]])
    ELSE None

\* the payload was parsed to an event
ParsedEvent == ctl.call = "_parse_wal2json" /\ IsSome(ctl.parsed)

\* the change an event was parsed from
ParsedChange == The(ctl.payload).changes[1]

\* C11 as stated: new_data and old_data are the mappings of the columns
\* and identity arrays; primary_key equals old_data whenever the payload
\* carries an identity array, otherwise {id: new_data[id]} when new_data
\* has a column id, otherwise it is absent.
C11_KeyAsStated ==
    ParsedEvent =>
        /\ IsDataOf(The(ctl.parsed).new_data, ParsedChange.columns)
        /\ IsDataOf(The(ctl.parsed).old_data, ParsedChange.identity)
        /\ The(ctl.parsed).primary_key =
             IF IsSome(ParsedChange.identity)
             THEN The(ctl.parsed).old_data
             ELSE IdKeyOf(The(ctl.parsed).new_data)

\* C11, amended: primary-key derivation in parsing.  new_data and old_data
\* are the mappings of the columns and identity arrays; primary_key equals
\* old_data whenever the payload carries a non-empty identity array,
\* otherwise (no identity array, or an empty one) it is {id: new_data[id]}
\* when new_data has a column id, otherwise it is absent.
C11_KeyDerivation ==
    ParsedEvent =>
        /\ IsDataOf(The(ctl.parsed).new_data, ParsedChange.columns)
        /\ IsDataOf(The(ctl.parsed).old_data, ParsedChange.identity)
        /\ The(ctl.parsed).primary_key =
             IF IsSome(ParsedChange.identity) /\ The(ParsedChange.identity) # <<>>
             THEN The(ctl.parsed).old_data
             ELSE IdKeyOf(The(ctl.parsed).new_data)

\* an insert with the columns id = 7, name = Amy and no identity array was
\* parsed: new_data has both columns, the key is {id: 7}
C11_Witness ==
    /\ ParsedEvent
    /\ The(ctl.parsed).operation = "INSERT"
    /\ ParsedChange.columns = Some(<<Col("id", "7"), Col("name", "Amy")>>)
    /\ ParsedChange.identity = None
    /\ DOMAIN The(The(ctl.parsed).new_data) = {"id", "name"}
    /\ The(The(ctl.parsed).new_data)["name"] = "Amy"
    /\ DOMAIN The(The(ctl.parsed).primary_key) = {"id"}
    /\ The(The(ctl.parsed).primary_key)["id"] = "7"
    /\ The(ctl.parsed).old_data = None

\* C12: a stream fault stops the listener.  A listener whose worker ended
\* with a fault of the read loop, and that has not been started again, has
\* its running flag false.
C12_FaultStopsListener ==
    \A t \in Spawned :
        (thr[t].pc = "faulted" /\ lst[thr[t].l].stream_thread = t) =>
            ~lst[thr[t].l].is_running

\* a worker reads and processes message k: current_position becomes the
\* message's offset whether or not the payload parses, the event parsed
\* from a payload without an lsn carries that offset (the position was set
\* before the parse), and without an event the worker goes to the
\* acknowledgement and from there to the next read
C13_Read ==
    \A t \in Spawned :
        (thr[t].role = "worker" /\ thr[t].msg = 0 /\ thr'[t].msg > 0) =>
            /\ lst'[thr[t].l].current_position =
                  Some(PositionStr(thr[t].l, thr'[t].msg))
            /\ thr'[t].ev = EventOfMsg(thr[t].l, thr'[t].msg)
            /\ IsNone(thr'[t].ev) => thr'[t].pc = "ack"

\* current_position changes only when a worker of the listener reads a
\* message, and the acknowledgement leads back to the read loop
C13_Kept ==
    /\ \A l \in ListenerIds :
         lst'[l].current_position # lst[l].current_position =>
            \E t \in Spawned :
                thr[t].l = l /\ thr[t].msg = 0 /\ thr'[t].msg > 0
    /\ \A t \in Spawned :
         (thr[t].pc = "ack" /\ thr'[t] # thr[t]) => thr'[t].pc = "loop"

\* C13: the position advances before parsing.  For every message a worker
\* reads, current_position is set to the message's offset before the
\* payload is parsed, so that after a message whose payload does not parse
\* or gives no event get_current_position() returns that message's offset,
\* and the worker goes on to read the next message.
C13_PositionBeforeParse == [][C13_Read /\ C13_Kept]_vars

\* the second listener's worker went past a payload that is no JSON and one
\* without a table to its third message, whose event carries that
\* message's offset
C13_Witness ==
    \E t \in Spawned :
        /\ thr[t].role = "worker"
        /\ thr[t].l = 2
        /\ thr[t].msg = 3
        /\ IsSome(thr[t].ev)
        /\ The(thr[t].ev).lsn = PositionStr(2, 3)
        /\ lst[2].current_position = Some(PositionStr(2, 3))
        /\ ~Stream(2)[1].json_ok

\* a is a subsequence of b
IsSubseq(a, b) ==
    \E f \in [1..Len(a) -> 1..Len(b)] :
        /\ \A i \in 1..Len(a) : a[i] = b[f[i]]
        /\ \A i, j \in 1..Len(a) : i < j => f[i] < f[j]

\* the message of listener l that the event with this identity was parsed
\* from
MsgIndex(l, id) ==
    CHOOSE k \in 1..Len(Stream(l)) :
        IsSome(EventOfMsg(l, k)) /\ Id(The(EventOfMsg(l, k))) = id

\* identities in the order their messages were read from listener l
InReadOrder(ids, l) ==
    \A i, j \in DOMAIN ids : i < j => MsgIndex(l, ids[i]) < MsgIndex(l, ids[j])

\* with a single listener the queue and every batch copied from it are in
\* the order the listener read the messages
C14_ReadOrder ==
    Len(listeners) = 1 =>
        /\ InReadOrder(hist.pending, listeners[1].listener)
        /\ IdSeq(event_queue) = hist.pending
        /\ \A t \in Threads :
             thr[t].kind \in {"size", "time"} =>
                InReadOrder(IdSeq(thr[t].events), listeners[1].listener)

\* a handle_batch call begins: its events are a subsequence of the queue's
\* contents in enqueue order, as they were when the batch was taken (for
\* stop_all's rest: as they are)
C14_Subsequence ==
    \A t \in Threads :
        (/\ Len(thr'[t].called) > Len(thr[t].called)
         /\ thr'[t].kind \in {"size", "time", "final"}) =>
            IsSubseq(IdSeq(thr'[t].called[Len(thr'[t].called)].events),
                     IF thr'[t].alias THEN hist.pending ELSE thr'[t].expect)

\* C14: batch order preservation.  In every flush the events passed to a
\* handler's handle_batch are a subsequence of the queue contents in enqueue
\* order, and with a single listener the enqueue order is the order in
\* which the listener read the messages.
C14_OrderPreserved == []C14_ReadOrder /\ [][C14_Subsequence]_vars

\* with one listener, a batch of its two events in read order went to both
\* handlers, the first getting the one event it accepts
C14_Witness ==
    \E t \in Spawned :
        /\ Len(listeners) = 1
        /\ listeners[1].listener = 1
        /\ thr[t].kind = "time"
        /\ thr[t].expect = << Id(The(EventOfMsg(1, 1))), Id(The(EventOfMsg(1, 2))) >>
        /\ Len(thr[t].called) = 2
        /\ IdSeq(thr[t].called[1].events) = << Id(The(EventOfMsg(1, 1))) >>
        /\ IdSeq(thr[t].called[2].events) = thr[t].expect

\* the flush threads that have not ended
FlushThreads == {t \in Spawned : thr[t].role = "flush" /\ Alive(t)}

\* C15: single flush thread.  At most one flush thread is alive at any time;
\* a flush thread is alive only with batching enabled and not after stop_all
\* has returned; with batching disabled no flush thread is ever created.
C15_SingleFlushThread ==
    /\ Cardinality(FlushThreads) <= 1
    /\ FlushThreads # {} => enable_batching /\ ctl.call # "stop_all_returned"
    /\ ~enable_batching => \A t \in Spawned : thr[t].role # "flush"

\* a bound on the error log smaller than the number of handler calls that
\* raise in the model's runs
ErrorLogBound == MaxRaise - 1

\* C16: bounded error log.  metrics['errors'] never holds more than the
\* bound's number of records.
C16_BoundedErrorLog == Len(metrics.errors) <= ErrorLogBound

\* the controlling thread's last call was start_streaming on a listener that
\* was running: no thread was spawned and the listener's running flag, stop
\* flag and worker reference are what they were before the call
C17_Kept ==
    (ctl.call = "start_streaming" /\ ctl.snap.is_running) =>
        /\ nthreads = ctl.spawned
        /\ Snap(ctl.listener) = ctl.snap
        /\ Main.pc = "idle"
        /\ ctl.raised = "none"

\* the step of such a call changes no listener and no thread, the worker
\* holding the callback included
C17_Frame ==
    (ctl' # ctl /\ ctl'.call = "start_streaming" /\ ctl'.snap.is_running) =>
        /\ lst' = lst
        /\ thr' = thr
        /\ nthreads' = nthreads

\* C17: start is a no-op when running.  start_streaming on a listener whose
\* running flag is true spawns no additional worker and leaves the running
\* flag, the stop flag, the worker reference and the callback (held by the
\* worker thread) unchanged.
C17_StartNoOp == []C17_Kept /\ [][C17_Frame]_vars

\* start_streaming was called on a running listener whose worker is alive
C17_Witness ==
    /\ ctl.call = "start_streaming"
    /\ ctl.snap.is_running
    /\ ctl.snap.stream_thread = 1
    /\ Alive(1)
    /\ nthreads = 1

\* after stop_streaming on a running listener the running flag is false and
\* the stop flag set, also while the join goes on; after one on a listener
\* that was not running the flags and the worker reference are as before
C18_After ==
    ctl.call = "stop_streaming" =>
        /\ ~lst[ctl.listener].is_running
        /\ ctl.raised = "none"
        /\ nthreads = ctl.spawned
        /\ ctl.snap.is_running => lst[ctl.listener].stop_event
        /\ ~ctl.snap.is_running =>
              Snap(ctl.listener) = ctl.snap /\ Main.pc = "idle"

\* the step of a stop_streaming on a listener that is not running changes no
\* listener and no thread
C18_Frame ==
    (ctl' # ctl /\ ctl'.call = "stop_streaming" /\ ~ctl'.snap.is_running) =>
        lst' = lst /\ thr' = thr /\ nthreads' = nthreads

\* the controlling thread's steps in stop_streaming, the call and the end of
\* the join, read no message and deliver none, and no worker reads a message
\* while the stop flag stays set
C18_NoDrain ==
    /\ (ctl'.call = "stop_streaming" /\ (ctl' # ctl \/ thr'[MainT] # thr[MainT])) =>
          /\ hist' = hist
          /\ event_queue' = event_queue
          /\ metrics' = metrics
          /\ \A l \in ListenerIds :
                lst'[l].rd = lst[l].rd /\ lst'[l].acked = lst[l].acked
    /\ \A l \in ListenerIds :
          (lst[l].stop_event /\ lst'[l].stop_event) => lst'[l].rd = lst[l].rd

\* C18: stop is idempotent.  After stop_streaming the running flag is false
\* and the stop flag is set; a second stop_streaming, or one on a listener
\* that was never started, changes no state and raises nothing; messages not
\* yet read are neither parsed nor passed to the callback by stop.
C18_StopIdempotent == []C18_After /\ [][C18_Frame /\ C18_NoDrain]_vars

\* a second stop_streaming on a stopped listener whose worker has ended with
\* messages left unread
C18_Witness ==
    /\ ctl.call = "stop_streaming"
    /\ ~ctl.snap.is_running
    /\ ctl.snap.stop_event
    /\ ctl.snap.stream_thread # 0
    /\ thr[ctl.snap.stream_thread].pc = "exited"
    /\ lst[ctl.listener].rd < Len(Stream(ctl.listener))
    /\ Main.pc = "idle"

\* the publications and slots of the configured names
OwnPublications(db) == {p \in db.pubs : p.pubname = publication_name}
OwnSlots(db) == {sl \in db.slots : sl.slot_name = slot_name}

\* a call of setup on a source with wal_level logical that meets no fault:
\* each object is created only if none of its name existed, one of each
\* exists afterwards, nothing else changes and nothing is raised
C19_CreatesIfAbsent(c) ==
    (c.before.wal_level = "logical" /\ c.fault = "none") =>
        /\ c.raised = "none"
        /\ Cardinality(OwnPublications(c.after)) = 1
        /\ Cardinality(OwnSlots(c.after)) = 1
        /\ OwnPublications(c.before) # {} => c.after.pubs = c.before.pubs
        /\ OwnSlots(c.before) # {} => c.after.slots = c.before.slots
        /\ c.after.pubs \ OwnPublications(c.after) =
              c.before.pubs \ OwnPublications(c.before)
        /\ c.after.slots \ OwnSlots(c.after) =
              c.before.slots \ OwnSlots(c.before)
        /\ c.after.wal_level = c.before.wal_level

\* a call of setup on a source whose wal_level is not logical
C19_Refuses(c) ==
    c.before.wal_level # "logical" =>
        c.raised = "CDCSetupError" /\ c.after = c.before

\* C19: setup is idempotent.  With wal_level logical the publication and the
\* slot are each created only if none of the configured name exists; a setup
\* after a successful one creates nothing, leaves exactly one publication
\* and one slot of those names and raises nothing; with another wal_level
\* setup fails with CDCSetupError and creates neither.
C19_SetupIdempotent ==
    \A i \in DOMAIN ctl.setup_log :
        LET c == ctl.setup_log[i]
        IN  /\ C19_CreatesIfAbsent(c)
            /\ C19_Refuses(c)
            /\ (i > 1 /\ ctl.setup_log[i - 1].raised = "none"
                      /\ c.fault # "connect") =>
                  /\ c.raised = "none"
                  /\ c.after = c.before
                  /\ Cardinality(OwnPublications(c.after)) = 1
                  /\ Cardinality(OwnSlots(c.after)) = 1

\* a setup that created both objects, the publication for a list of tables,
\* was followed by a second one that met no fault
C19_Witness ==
    /\ Len(ctl.setup_log) = 2
    /\ ctl.setup_log[1].before.pubs = {}
    /\ ctl.setup_log[1].before.slots = {}
    /\ ctl.setup_log[1].raised = "none"
    /\ ctl.setup_log[1].after.pubs =
          {Publication(publication_name, <<"patients">>)}
    /\ ctl.setup_log[2].fault = "none"
    /\ ctl.setup_log[2].raised = "none"

\* a payload that is not valid JSON, or whose change has no table name
Unparsable(p) ==
    \/ ~p.json_ok
    \/ HasChange(p) /\ FirstChange(p).table \in {Absent, ""}

\* a payload with a well-formed change of a known action
Parsable(p) ==
    /\ HasChange(p)
    /\ WellFormed(FirstChange(p))
    /\ CodeOf(FirstChange(p)) \in ActionCodes

\* the payload of the message worker t has read
PayloadOf(t) == Stream(thr[t].l)[thr[t].msg]

\* a worker holding an unparsable message has no event and is at the
\* acknowledgement, never in the callback; one that is through the
\* callback with a well-formed message has delivered the message's event
C20_Dropped ==
    \A t \in Spawned :
        (thr[t].role = "worker" /\ thr[t].msg > 0) =>
            /\ Unparsable(PayloadOf(t)) => IsNone(thr[t].ev) /\ thr[t].pc = "ack"
            /\ (Parsable(PayloadOf(t)) /\ thr[t].pc = "ack") =>
                  Id(The(EventOfMsg(thr[t].l, thr[t].msg)))
                      \in hist.appended \cup hist.flushed

\* the read of an unparsable message calls nothing and leaves the running
\* flag alone, the read of a well-formed one enters the callback with the
\* message's event, and the worker goes from the acknowledgement back to
\* its loop with the flags as they are
C20_Step ==
    \A t \in Spawned :
        /\ (thr[t].role = "worker" /\ thr[t].msg = 0 /\ thr'[t].msg > 0) =>
              LET p == Stream(thr[t].l)[thr'[t].msg]
              IN  /\ Unparsable(p) =>
                        /\ metrics' = metrics
                        /\ hist' = hist
                        /\ event_queue' = event_queue
                        /\ Snap(thr[t].l)' = Snap(thr[t].l)
                  /\ Parsable(p) =>
                        /\ IsSome(thr'[t].ev)
                        /\ The(thr'[t].ev).table = FirstChange(p).table
                        /\ thr'[t].pc = "hc_enter"
        /\ (thr[t].role = "worker" /\ thr[t].pc = "ack" /\ thr'[t] # thr[t]) =>
              /\ thr'[t].pc = "loop"
              /\ Snap(thr[t].l)' = Snap(thr[t].l)

\* C20: parse failures are non-fatal.  A message whose payload is not valid
\* JSON, or whose change has no table name, gives no event and no call of
\* the callback; the worker keeps running, and the next well-formed message
\* is parsed and delivered to the callback.
C20_ParseFailuresNonFatal == []C20_Dropped /\ [][C20_Step]_vars

\* the second listener's worker, still running, dropped a message that is
\* no JSON and one without a table, and delivered the third
C20_Witness ==
    \E t \in Spawned :
        /\ thr[t].role = "worker"
        /\ thr[t].l = 2
        /\ thr[t].msg = 3
        /\ thr[t].pc = "ack"
        /\ lst[2].is_running
        /\ ~Stream(2)[1].json_ok
        /\ Stream(2)[2].changes[1].table = Absent
        /\ Parsable(Stream(2)[3])
        /\ metrics.events_received >= 1
        /\ Id(The(EventOfMsg(2, 3))) \in hist.appended \cup hist.flushed

\* C21: ChangeEvent data invariant.  Every event the parser emits with
\* operation INSERT, UPDATE or DELETE carries at least one of old_data and
\* new_data.
C21_DataInvariant ==
    (ctl.call = "_parse_wal2json" /\ IsSome(ctl.parsed)) =>
        (The(ctl.parsed).operation \in {"INSERT", "UPDATE", "DELETE"} =>
            IsSome(The(ctl.parsed).old_data) \/ IsSome(The(ctl.parsed).new_data))

\* a thread inside _process_event has called, once each and in registration
\* order, the first handlers that accept the event and no other, each with
\* the event; when _process_event is about to return it has called them all
C22_Calls ==
    \A t \in Threads :
        thr[t].kind = "single" =>
            LET acc == Accepting(thr[t].events)
            IN  /\ ~enable_batching
                /\ Len(thr[t].events) = 1
                /\ thr[t].pc \in {"in_handler", "return"}
                /\ Len(thr[t].called) <= Len(acc)
                /\ \A i \in DOMAIN thr[t].called :
                      /\ thr[t].called[i].handler = acc[i]
                      /\ thr[t].called[i].events = thr[t].events
                      /\ i < Len(thr[t].called) =>
                            thr[t].called[i].outcome \in {"ok", "raised"}
                /\ thr[t].pc = "return" => Len(thr[t].called) = Len(acc)

\* a handle_change call that ends: when it raised, events_failed grows by
\* one and one error record naming the handler is appended; when it
\* returned, events_processed grows by one
C22_Accounted ==
    \A t \in Threads :
        (thr[t].pc = "in_handler" /\ thr[t].kind = "single" /\ thr'[t] # thr[t]) =>
            LET c == thr'[t].called[Len(thr[t].called)]
            IN  IF c.outcome = "raised"
                THEN /\ metrics'.events_failed = metrics.events_failed + 1
                     /\ metrics'.events_processed = metrics.events_processed
                     /\ metrics'.errors =
                           Append(metrics.errors,
                                  metrics'.errors[Len(metrics'.errors)])
                     /\ metrics'.errors[Len(metrics'.errors)].handler = c.handler
                ELSE /\ c.outcome = "ok"
                     /\ metrics'.events_processed = metrics.events_processed + 1
                     /\ metrics'.events_failed = metrics.events_failed
                     /\ metrics'.errors = metrics.errors

\* C22: immediate dispatch with batching disabled.  Each _handle_change call
\* calls handle_change(event) exactly once on every registered handler that
\* accepts the event, in registration order, and on no other, before it
\* returns; a handler that raises is recorded (events_failed + 1, one error
\* record) and the remaining handlers are still called; the event queue
\* stays empty.
C22_ImmediateDispatch ==
    /\ [](C22_Calls /\ (~enable_batching => event_queue = <<>>))
    /\ [][C22_Accounted]_vars

\* with batching disabled and two handlers registered, the first raised on
\* an event both accept and the second was called and returned
C22_Witness ==
    /\ ~enable_batching
    /\ Len(handlers) = 2
    /\ Main.kind = "single"
    /\ Main.pc = "return"
    /\ Len(Main.called) = 2
    /\ Main.called[1].outcome = "raised"
    /\ Main.called[2].outcome = "ok"
    /\ metrics.events_failed = 1
    /\ Len(metrics.errors) = 1
    /\ metrics.events_received >= 2

\* C23: fatal bring-up errors surface synchronously.  When start_streaming
\* raised for a registered listener during start_all, start_all raises to
\* its caller.
C23_FailureSurfaces ==
    (ctl.call = "start_all" /\ ctl.start_failed # {}) => ctl.raised # "none"

\* C24: status is a snapshot.  A status object returned by get_status, its
\* counters and its error list, does not change while the caller holds it,
\* whatever is received, processed or failed after the call.
C24_StatusIsSnapshot ==
    [][(IsSome(ctl.status) /\ ctl'.status = ctl.status) =>
          [The(ctl.status) EXCEPT !.metrics.errors = metrics'.errors] =
              StatusRead(The(ctl.status))]_vars

\* the markers that are positions of the source: LSNs
UsableMarkers == {"0/16B2D80"}

\* C25: PositionError on unusable marker.  resume_from_position called with
\* an unusable marker (an empty or malformed position string) raises a
\* position error.
C25_UnusableMarkerRaises ==
    (ctl.call = "resume_from_position" /\ ctl.name \notin UsableMarkers) =>
        ctl.raised = "CDCPositionError"

\* the step of resume_from_position(m) on listener l sets l's position to m
\* and changes nothing else: not l's flags, worker reference or the slot's
\* read and confirmed offsets, no other listener, no thread, nothing of the
\* manager
C26_Frame ==
    (ctl' # ctl /\ ctl'.call = "resume_from_position") =>
        /\ lst' = [lst EXCEPT ![ctl'.listener].current_position = Some(ctl'.name)]
        /\ ctl'.raised = "none"
        /\ UNCHANGED << enable_batching, listeners, handlers, event_queue,
                        queue_lock, batch_thread, stop_batching, metrics,
                        thr, nthreads, hist >>

\* the position of a listener changes only in a resume_from_position on it
\* or when one of its workers reads a message
C26_Kept ==
    \A l \in ListenerIds :
        lst'[l].current_position # lst[l].current_position =>
            \/ ctl' # ctl /\ ctl'.call = "resume_from_position" /\ ctl'.listener = l
            \/ \E t \in Spawned :
                  thr[t].l = l /\ thr[t].msg = 0 /\ thr'[t].msg > 0

\* what the stream delivers is decided by the slot's offsets alone: a start
\* begins after the confirmed offset and a read takes the next message,
\* whatever the position recorded
C26_StreamUnmoved ==
    \A l \in ListenerIds :
        lst'[l].rd # lst[l].rd =>
            \/ /\ ~lst[l].is_running
               /\ lst'[l].is_running
               /\ lst'[l].rd = lst[l].acked
            \/ /\ lst'[l].rd = lst[l].rd + 1
               /\ \E t \in Spawned :
                     thr[t].l = l /\ thr[t].msg = 0 /\ thr'[t].msg = lst'[l].rd

C27_TruncateRemovesAll ==
    (/\ ctl.call = "deliver"
     /\ ctl.delivered # <<>>
     /\ ctl.delivered[Len(ctl.delivered)].operation = "TRUNCATE") =>
        \A n \in ctl.graph :
            n.label # LabelOf(ctl.delivered[Len(ctl.delivered)].table)

\* C28: cleanup_all tolerance.  cleanup_all calls cleanup() once for every
\* entry of the registry, in registry order, also after a cleanup() that
\* raised; it raises nothing to its caller and leaves the registry as it
\* was.
C28_CleanupTolerant ==
    ctl.call = "cleanup_all" =>
        /\ ctl.cleaned = [i \in 1..Len(listeners) |-> listeners[i].listener]
        /\ ctl.cleanup_failed \subseteq Registered
        /\ ctl.raised = "none"
        /\ listeners = ctl.before

\* with two listeners registered, cleanup() raised for the first and was
\* still called for the second
C28_Witness ==
    /\ ctl.call = "cleanup_all"
    /\ Len(listeners) = 2
    /\ listeners[1].listener # listeners[2].listener
    /\ ctl.cleanup_failed = {listeners[1].listener}
    /\ ctl.cleaned = << listeners[1].listener, listeners[2].listener >>

\* the source tables of the node types handler h was constructed with
SourceTables(h) ==
    {node_types(h)[i].source_table : i \in DOMAIN node_types(h)} \ {Absent, ""}

\* the events the manager holds: queued, being ingested, in a batch
HeldEvents ==
    {event_queue[i] : i \in DOMAIN event_queue}
        \cup UNION {{thr[t].events[i] : i \in DOMAIN thr[t].events} : t \in Threads}
        \cup UNION {{thr[t].ev[i] : i \in DOMAIN thr[t].ev} : t \in Threads}

\* C29: handler predicate.  Both handlers accept an event if and only if its
\* table is a key of the lookup built from the node types that have a source
\* table; so every handle_batch / handle_change call the manager makes
\* passes a handler only events of tables it maps, and, of a copied batch,
\* all of those.
C29_HandlerPredicate ==
    /\ \A h \in HandlerPool : table_to_node_type(h) = SourceTables(h)
    /\ \A h \in HandlerPool, e \in HeldEvents :
          can_handle(h, e) <=> e.table \in SourceTables(h)
    /\ \A t \in Threads :
          \A i \in DOMAIN thr[t].called :
              LET c == thr[t].called[i]
              IN  /\ c.events # <<>>
                  /\ \A k \in DOMAIN c.events :
                        c.events[k].table \in SourceTables(c.handler)
                  /\ ~thr[t].alias =>
                        c.events =
                           SelectSeq(thr[t].events,
                                     LAMBDA e : e.table \in SourceTables(c.handler))

\* a batch with an event of a table the graph handler does not map went to
\* that handler without the event and to the embedding handler with it
C29_Witness ==
    \E t \in Threads :
        /\ thr[t].kind \in {"size", "time"}
        /\ \E i \in DOMAIN thr[t].events : thr[t].events[i].table = "visits"
        /\ Len(thr[t].called) = 2
        /\ thr[t].called[1].handler = "GraphSyncHandler"
        /\ \A k \in DOMAIN thr[t].called[1].events :
              thr[t].called[1].events[k].table = "patients"
        /\ thr[t].called[2].handler = "EmbeddingSyncHandler"
        /\ thr[t].called[2].events = thr[t].events

\* the controlling thread signals the flush thread only when the loop over
\* the registry is through and no registered listener is left running; it
\* waits for the flush thread and starts the residual flush only with the
\* signal given; stop_all has not returned while the residual flush runs
C30_Order ==
    /\ Main.pc = "join_batch" =>
          /\ stop_batching
          /\ ctl.call = "stop_all"
          /\ ctl.sidx > Len(listeners)
          /\ \A l \in Registered : ~lst[l].is_running
    /\ Main.kind = "final" =>
          /\ stop_batching
          /\ ctl.call = "stop_all"
          /\ \A l \in Registered : ~lst[l].is_running
    /\ Main.pc = "final_clear" => ctl.call = "stop_all"
    /\ ctl.call = "stop_all_returned" =>
          /\ Main.pc = "idle"
          /\ Main.kind = "none"
          /\ \A l \in Registered : ~lst[l].is_running

\* the signal is given in the step that ends the loop over the listeners,
\* the residual flush starts in the step in which the join returns, and
\* stop_all returns from the loop's end (no flush thread), from the join
\* (empty queue) or from the clearing of the queue after the residual flush
C30_Steps ==
    /\ (stop_batching' /\ ~stop_batching) =>
          /\ Main.pc = "stop_listener"
          /\ thr'[MainT].pc = "join_batch"
          /\ \A l \in Registered : ~lst[l].is_running
    /\ (thr'[MainT].kind = "final" /\ Main.kind # "final") =>
          /\ Main.pc = "join_batch"
          /\ JoinReturns(batch_thread)
    /\ StopAllReturns =>
          /\ Main.pc \in {"stop_listener", "join_batch", "final_clear"}
          /\ Main.pc = "join_batch" => event_queue = <<>>

\* the steps of stop_all start no thread and no listener and append no
\* event to the queue
C30_Quiet ==
    (ctl.call = "stop_all" /\ (thr'[MainT] # thr[MainT] \/ ctl' # ctl)) =>
        /\ nthreads' = nthreads
        /\ \A l \in ListenerIds : lst'[l].is_running => lst[l].is_running
        /\ hist'.appended = hist.appended
        /\ event_queue' = event_queue \/ event_queue' = <<>>

\* C30: shutdown ordering.  Within stop_all, stop_streaming is called on
\* every registered listener, also after a stop that raised, before the
\* flush thread is signalled; the flush thread is signalled and joined
\* before the residual flush starts; the residual flush completes before
\* stop_all returns; stop_all starts no listener and enqueues no event.
C30_ShutdownOrder == []C30_Order /\ [][C30_Steps /\ C30_Quiet]_vars

\* the stop of one of two listeners raised, the other was stopped all the
\* same, the flush thread was signalled and waited for, and the residual
\* flush of the events queued has run
C30_Witness ==
    /\ Main.pc = "final_clear"
    /\ Len(listeners) = 2
    /\ ctl.stop_failed # {}
    /\ \E l \in Registered : l \notin ctl.stop_failed /\ lst[l].stop_event
    /\ stop_batching
    /\ event_queue # <<>>


\* a thread's dispatch (_process_batch / _process_event) has ended: its loop
\* is over or an exception is leaving it
DispatchEnded(t) == thr[t].pc \in {"return", "raising"}

\* C31: a fault in a handler's accepts-predicate is isolated.  With a
\* registered handler A whose can_handle raises, when a dispatch has ended
\* every other registered handler that accepts an event of the list has been
\* called with the events it accepts, the failure of A is among the error
\* records of the metrics, no exception leaves the dispatch (into the
\* ingesting listener thread, the flush thread or the caller), and the flush
\* thread is not ended by one.
C31_FilterFaultIsolated ==
    \A t \in Threads :
        /\ thr[t].pc # "raising"
        /\ thr[t].role = "flush" => thr[t].pc # "faulted"
        /\ DispatchEnded(t) =>
             /\ \A i \in DOMAIN handlers :
                  /\ handlers[i] \notin ctl.faulty
                  /\ handler_events(EventsOf(t), handlers[i]) # <<>>
                  => \E c \in DOMAIN thr[t].called :
                        /\ thr[t].called[c].handler = handlers[i]
                        /\ thr[t].called[c].events =
                              handler_events(EventsOf(t), handlers[i])
             /\ (\E i \in DOMAIN handlers : handlers[i] \in ctl.faulty)
                  => \E e \in DOMAIN metrics.errors :
                        metrics.errors[e].handler \in ctl.faulty


\* the event's primary_key mapping has a value under the configured
\* primary-key property of its table's node type
CarriesKey(e) ==
    /\ IsSome(e.primary_key)
    /\ KeyOf(e.table) \in DOMAIN The(e.primary_key)

\* the query keyed on the event's key value: the merge of an Update, the
\* detach-delete of a Delete
KeyedQuery(e) ==
    Query(IF e.operation = "UPDATE" THEN "merge" ELSE "delete",
          LabelOf(e.table), ValueIn(e.primary_key, KeyOf(e.table)))

\* C32: graph-sync Update/Delete by primary key.  For an Update or Delete
\* event on a mapped table that the handler was passed, the merge
\* (Update) or detach-delete (Delete) query keyed on the configured
\* primary-key property was issued exactly when the event's primary_key
\* mapping has a value for that property, whatever the value (the number 0
\* and the empty string included), and no such query was issued when the
\* event has no primary_key or it lacks the property.
C32_KeyedUpdateDelete ==
    ctl.call = "deliver" =>
        \A i \in DOMAIN ctl.delivered :
            LET e == ctl.delivered[i]
            IN  e.operation \in {"UPDATE", "DELETE"} =>
                    (CarriesKey(e) <=>
                        \E k \in DOMAIN ctl.queries : ctl.queries[k] = KeyedQuery(e))


\* the graph after handle_change on each event of a list in the list's order
RECURSIVE EachChange(_, _)
EachChange(g, events) ==
    IF events = <<>> THEN g
    ELSE EachChange(handle_change(g, Head(events)), Tail(events))

\* C33: the batch path refines the single-event path in the graph-sync
\* handler.  For every batch of accepted events passed to handle_batch, the
\* graph after the call equals the graph after handle_change on each event
\* of the batch in batch order.
C33_BatchRefinesSingle ==
    [][ /\ ctl'.call = "deliver"
        /\ enable_batching
        /\ ctl'.delivered # <<>>
        => ctl'.graph = EachChange(ctl.graph, ctl'.delivered) ]_vars


\* the worker threads of listener l that are in _stream_changes and have
\* not left its read loop
WorkersOf(l) ==
    {t \in Spawned : thr[t].role = "worker" /\ thr[t].l = l /\ Alive(t)}

\* C34: at most one worker per listener.  Whatever start_streaming and
\* stop_streaming calls were made on a listener, while its stop flag is
\* clear (the condition of the read loop holds for every worker of it) at
\* most one worker thread of the listener is in its read loop.
C34_OneWorkerPerListener ==
    \A l \in ListenerIds :
        ~lst[l].stop_event => Cardinality(WorkersOf(l)) <= 1


\* thread t enters _process_batch in this step
EntersBatch(t) ==
    /\ thr[t].kind = "none"
    /\ thr'[t].kind \in {"size", "time", "final"}

\* the batch thread t enters _process_batch with: its copy of the queue, or
\* (stop_all) the queue itself
EnteredWith(t) == IF thr'[t].alias THEN event_queue ELSE thr'[t].events

\* C35: no event is dispatched twice.  Whenever a thread enters
\* _process_batch, no event of its batch was in a batch that was passed to
\* _process_batch before, under every interleaving of the ingesting listener
\* threads, the flush thread and stop_all.
C35_NoEventTwice ==
    [][ \A t \in Threads :
            EntersBatch(t) => Ids(EnteredWith(t)) \cap hist.flushed = {} ]_vars


\* a handler call begins on thread t in this step
CallBegins(t) == Len(thr'[t].called) > Len(thr[t].called)

\* the call that begins: its handler and the events passed
BegunCall(t) == thr'[t].called[Len(thr'[t].called)]

\* the optional events of the messages of listener l, by message index
StreamEvents(l) == [k \in 1..Len(Stream(l)) |-> EventOfMsg(l, k)]

\* the index of the message an event with this identity was parsed from
PosIn(evs, id) ==
    CHOOSE k \in DOMAIN evs : IsSome(evs[k]) /\ Id(The(evs[k])) = id

\* the messages whose events handler h accepts
AcceptedMsgs(evs, h) ==
    {k \in DOMAIN evs : IsSome(evs[k]) /\ can_handle(h, The(evs[k]))}

\* the messages whose events were passed to handler h so far
OfferedMsgs(evs, h) ==
    {k \in AcceptedMsgs(evs, h) : <<Id(The(evs[k])), h>> \in hist.offered}

\* C36: cross-flush ordering for a single listener.  With one registered
\* listener and batching enabled, while the manager runs (stop_all has
\* not signalled the flush threads), whenever a flush (size-triggered on the
\* ingesting thread or time-triggered on the flush thread) begins a call of
\* a handler, the events passed are in the order of their messages, each of
\* them is later than every event the handler was passed before, and every
\* earlier event of the listener that the handler accepts was passed to it
\* before or is in this call: the concatenation of the batches a handler
\* receives is in source order without an event overtaken.
C36_CrossFlushOrder ==
    [][ \A t \in Threads :
          (/\ Len(listeners) = 1
           /\ enable_batching
           /\ ~stop_batching
           /\ CallBegins(t)
           /\ thr'[t].kind \in {"size", "time"}) =>
             LET evs == StreamEvents(listeners[1].listener)
                 h == BegunCall(t).handler
                 ids == IdSeq(BegunCall(t).events)
                 at == [i \in DOMAIN ids |-> PosIn(evs, ids[i])]
                 msgs == {at[i] : i \in DOMAIN ids}
                 before == OfferedMsgs(evs, h)
             IN  /\ \A i, j \in DOMAIN at : i < j => at[i] < at[j]
                 /\ \A k \in before : \A m \in msgs : k < m
                 /\ \A k \in AcceptedMsgs(evs, h) :
                       (\E m \in msgs : k < m) => k \in before \cup msgs
      ]_vars

\* the worker's size-triggered flush passes a handler a batch after the
\* flush thread's time-triggered flush passed it an earlier one
C36_Witness ==
    \E t \in Spawned :
        /\ Len(listeners) = 1
        /\ thr[t].role = "worker"
        /\ thr[t].kind = "size"
        /\ thr[t].pc = "in_handler"
        /\ \E k \in OfferedMsgs(StreamEvents(listeners[1].listener),
                                 handlers[thr[t].h]) :
              Id(The(EventOfMsg(listeners[1].listener, k))) \notin Ids(thr[t].events)


\* C37: queue bound.  With batching enabled, in every state in which the
\* queue lock is not held the event queue holds fewer than BatchSize events,
\* however many listener threads ingest concurrently.
C37_QueueBound ==
    (enable_batching /\ queue_lock = Free) => Len(event_queue) < BatchSize

\* two listener threads are ingesting, the lock is free and the queue is
\* one event short of a batch
C37_Witness ==
    /\ enable_batching
    /\ queue_lock = Free
    /\ Len(event_queue) = BatchSize - 1
    /\ Cardinality({t \in Spawned : thr[t].role = "worker" /\ Alive(t)}) >= 2
    /\ \E t \in Spawned : thr[t].role = "worker" /\ thr[t].pc = "hc_queue"


\* no flush and no immediate dispatch is in progress
Quiescent == \A t \in Threads : thr[t].kind = "none"

\* the threads whose _handle_change call passes its first block in this step
Counting == {t \in Threads : thr[t].pc = "hc_enter" /\ thr'[t].pc # "hc_enter"}

\* the threads whose handler call completes in this step
Completing == {t \in Threads : thr[t].pc = "in_handler" /\ thr'[t] # thr[t]}

\* the four counters never decrease
C38_Monotone ==
    /\ metrics'.events_received >= metrics.events_received
    /\ metrics'.events_processed >= metrics.events_processed
    /\ metrics'.events_failed >= metrics.events_failed
    /\ metrics'.batches_processed >= metrics.batches_processed

\* events_received grows by one with each _handle_change call and with
\* nothing else
C38_Received ==
    metrics'.events_received = metrics.events_received + Cardinality(Counting)

\* a completed handler call adds the size of its subset to exactly one of
\* events_processed and events_failed; nothing else changes the two
C38_PerCall ==
    /\ Completing = {} =>
          /\ metrics'.events_processed = metrics.events_processed
          /\ metrics'.events_failed = metrics.events_failed
    /\ \A t \in Completing :
          \/ /\ metrics'.events_processed =
                   metrics.events_processed + Len(thr[t].sub)
             /\ metrics'.events_failed = metrics.events_failed
          \/ /\ metrics'.events_failed = metrics.events_failed + Len(thr[t].sub)
             /\ metrics'.events_processed = metrics.events_processed

\* in a quiescent state the two counters together are at most one count for
\* each received event and registered handler
C38_Bound ==
    Quiescent =>
        metrics.events_processed + metrics.events_failed
            <= metrics.events_received * Len(handlers)

\* C38: metrics accounting.  events_received, events_processed,
\* events_failed and batches_processed never decrease; events_received
\* counts the _handle_change calls; events_processed + events_failed is the
\* sum of the subset sizes of the completed handler calls, each call counted
\* in exactly one of the two; and in every quiescent state
\* events_processed + events_failed <= events_received * number of handlers.
C38_MetricsAccounting ==
    []C38_Bound /\ [][C38_Monotone /\ C38_Received /\ C38_PerCall]_vars


\* the identities of the changes of listener l's messages that are not the
\* first of their envelope
LaterChanges(l) ==
    UNION { {OrElse(Stream(l)[k].changes[i].lsn, PositionStr(l, k)) :
                i \in 2..Len(Stream(l)[k].changes)} :
            k \in 1..Len(Stream(l)) }

\* worker t reads a message in this step
Reads(t) ==
    /\ thr[t].role = "worker"
    /\ thr[t].pc = "loop"
    /\ thr'[t].pc \in {"hc_enter", "ack"}

\* a read step yields at most one event, the event of the envelope's first
\* change or none for an empty change list, records the message's offset
\* and calls the callback only with an event
C39_Read ==
    \A t \in Spawned :
        Reads(t) =>
            LET l == thr[t].l
                k == thr'[t].msg
                p == Stream(l)[k]
            IN  /\ k = lst[l].rd + 1
                /\ lst'[l].current_position = Some(PositionStr(l, k))
                /\ Len(thr'[t].ev) <= 1
                /\ (thr'[t].pc = "hc_enter") = IsSome(thr'[t].ev)
                /\ (p.wrapped /\ p.changes = <<>>) => IsNone(thr'[t].ev)
                /\ (p.wrapped /\ p.changes # <<>>) =>
                      thr'[t].ev = parse_wal2json(Flat(p.changes[1]),
                                                  PositionStr(l, k))

\* the callback is entered only by a read step, once for the message read,
\* and the message is acknowledged after it whether or not it gave an event
C39_Once ==
    \A t \in Spawned :
        /\ (thr'[t].pc = "hc_enter" /\ thr[t].pc # "hc_enter") => Reads(t)
        /\ (thr[t].pc = "ack" /\ thr'[t].pc # "ack") =>
              /\ lst'[thr[t].l].acked = thr[t].msg
              /\ thr'[t].pc = "loop"

\* no change after the first of an envelope ever gives an event
C39_RestDropped ==
    \A l \in Registered :
        /\ LaterChanges(l) \cap (hist.appended \cup hist.flushed) = {}
        /\ \A t \in Threads :
              IsSome(thr[t].ev) => Id(The(thr[t].ev)) \notin LaterChanges(l)

\* C39: one event per message.  Each replication message yields at most
\* one ChangeEvent and at most one callback invocation; of a wrapped
\* envelope only the first change is parsed, the other changes give no
\* event, and an empty change list gives none, while the message's position
\* is recorded and the message acknowledged.
C39_OneEventPerMessage == []C39_RestDropped /\ [][C39_Read /\ C39_Once]_vars

\* the envelope with two changes gave the event of its first change, and
\* the envelope with the empty change list was read and acknowledged
C39_Witness ==
    \E l \in Registered :
        /\ ctl.slot = "envelopes"
        /\ Id(ChangeEvent(Stream(l)[1].changes[1], "")) \in hist.flushed \cup hist.appended
        /\ Stream(l)[2].changes = <<>>
        /\ lst[l].acked = 2
        /\ lst[l].current_position = Some(PositionStr(l, 2))

====
